---- MODULE Spec2Model ----
(***************************************************************************)
(* Model of the Cratey-Validator dispatch service                          *)
(* (app/services/validation_service.py), the helpers it calls in           *)
(* app/tasks/validation_tasks.py and app/utils/minio_utils.py, and the     *)
(* by-metadata worker task.                                                *)
(*                                                                         *)
(* Text values (object names, JSON documents) are sequences of lexical     *)
(* tokens, so that concatenation, prefix tests and parsing are computed.   *)
(* Python's None is the text None, which no request text equals.           *)
(***************************************************************************)
EXTENDS Integers, Sequences, FiniteSets, TLC

None == <<"None">>

\* ---------------------------------------------------------------- bounds
\* longest crate_json text, in tokens
MaxJsonLen == 4
\* most messages the broker holds at a time
MaxQueue == 2
\* most objects the bucket holds when the service starts
MaxObjects == 2
\* reads of a stored result that one behaviour follows
MaxReads == 2

\* ------------------------------------------------------- Python helpers
\* truthiness of an optional text: None and the empty text are falsy
Truthy(x) == x # None /\ x # <<>>

IsPrefix(p, s) == Len(p) <= Len(s) /\ SubSeq(s, 1, Len(p)) = p

\* positional binding of a call: a call that supplies fewer or more
\* positional arguments than the callee accepts raises TypeError before the
\* callee's body runs
BindsOK(required, optional, args) ==
    Len(args) >= required /\ Len(args) <= required + optional

\* ------------------------------------------------------------ JSON text
\* lexical tokens of a JSON text: braces, brackets, an object key with its
\* colon, a non-empty string literal, a number literal
JsonTokens == {"{", "}", "[", "]", "k:", "s", "1"}

RECURSIVE SeqsUpTo(_, _)
SeqsUpTo(S, n) ==
    IF n = 0 THEN {<<>>}
    ELSE LET shorter == SeqsUpTo(S, n - 1)
         IN  shorter \cup {Append(t, x) : t \in {u \in shorter : Len(u) = n - 1}, x \in S}

JsonTexts == SeqsUpTo(JsonTokens, MaxJsonLen)

JsonFail == [ok |-> FALSE, next |-> 0, type |-> "none", len |-> 0]

\* json.loads, value production: parses one value of text t starting at
\* position i; yields its Python type, its len() where it has one, and the
\* position after it.  Objects and arrays hold at most one member (the token
\* alphabet has no comma).
RECURSIVE ParseValue(_, _)
ParseValue(t, i) ==
    IF i > Len(t) THEN JsonFail
    ELSE IF t[i] = "1" THEN [ok |-> TRUE, next |-> i + 1, type |-> "int", len |-> 0]
    ELSE IF t[i] = "s" THEN [ok |-> TRUE, next |-> i + 1, type |-> "str", len |-> 1]
    ELSE IF t[i] = "{" THEN
        IF i + 1 <= Len(t) /\ t[i + 1] = "}"
        THEN [ok |-> TRUE, next |-> i + 2, type |-> "dict", len |-> 0]
        ELSE IF i + 1 <= Len(t) /\ t[i + 1] = "k:"
        THEN LET m == ParseValue(t, i + 2)
             IN  IF m.ok /\ m.next <= Len(t) /\ t[m.next] = "}"
                 THEN [ok |-> TRUE, next |-> m.next + 1, type |-> "dict", len |-> 1]
                 ELSE JsonFail
        ELSE JsonFail
    ELSE IF t[i] = "[" THEN
        IF i + 1 <= Len(t) /\ t[i + 1] = "]"
        THEN [ok |-> TRUE, next |-> i + 2, type |-> "list", len |-> 0]
        ELSE LET m == ParseValue(t, i + 1)
             IN  IF m.ok /\ m.next <= Len(t) /\ t[m.next] = "]"
                 THEN [ok |-> TRUE, next |-> m.next + 1, type |-> "list", len |-> 1]
                 ELSE JsonFail
    ELSE JsonFail

\* json.loads(text): the whole text must be one value; anything else raises
\* JSONDecodeError
json_loads(t) ==
    LET v == ParseValue(t, 1)
    IN  IF v.ok /\ v.next = Len(t) + 1
        THEN [raised |-> FALSE, type |-> v.type, len |-> v.len]
        ELSE [raised |-> TRUE, type |-> "none", len |-> 0]

\* white space between the tokens of a JSON text: line breaks, indentation
NotBlank(token) == token \notin {"\n", " "}

\* a reading that keeps the white space of the text
json_loads_value_keepsBlanks(text) == text

\* the value json.loads gives for a JSON text: its tokens without the white
\* space between them
json_loads_value(text) == SelectSeq(text, NotBlank)

\* Python's len(): defined for dict, list and str; TypeError otherwise
HasLen(type) == type \in {"dict", "list", "str"}

\* --------------------------------------------------------- object store
Slash == <<"/">>

\* crate ids and root paths requests may name; "c1" is a proper prefix of
\* "c10"
CrateIds == {<<"c1">>, <<"c1", "0">>}
RootPaths == {None, <<"base">>}

TheBucket == <<"test_bucket">>
MinioConfigs ==
    {[endpoint |-> "localhost:9000", accesskey |-> "admin",
      secret |-> "password123", ssl |-> FALSE, bucket |-> TheBucket]}

\* stored validation results (the JSON value held by validation_status.txt)
ResultValues == {<<"passed">>, <<"failed">>}

\* object name of a crate's result as update_validation_status_in_minio
\* builds it, taking only None for a missing root path
update_object_name_onlyNone(root_path, crate_id) ==
    IF root_path # None
    THEN root_path \o Slash \o crate_id \o <<"_validation">> \o Slash \o <<"validation_status.txt">>
    ELSE crate_id \o <<"_validation">> \o Slash \o <<"validation_status.txt">>

\* object name of a crate's result, as update_validation_status_in_minio
\* builds it
update_object_name(root_path, crate_id) ==
    IF Truthy(root_path)
    THEN root_path \o Slash \o crate_id \o <<"_validation">> \o Slash \o <<"validation_status.txt">>
    ELSE crate_id \o <<"_validation">> \o Slash \o <<"validation_status.txt">>

\* object name of a crate's result, as get_validation_status_from_minio
\* builds it
get_object_name(root_path, crate_id) ==
    IF Truthy(root_path)
    THEN root_path \o Slash \o crate_id \o <<"_validation">> \o Slash \o <<"validation_status.txt">>
    ELSE crate_id \o <<"_validation">> \o Slash \o <<"validation_status.txt">>

\* object name of a crate's result, as find_validation_object_on_minio
\* builds it
ValidationObjectName(root_path, crate_id) ==
    IF Truthy(root_path)
    THEN root_path \o Slash \o crate_id \o <<"_validation">> \o Slash \o <<"validation_status.txt">>
    ELSE crate_id \o <<"_validation">> \o Slash \o <<"validation_status.txt">>

RocratePath(root_path, rocrate_id) ==
    IF Truthy(root_path) THEN root_path \o Slash \o rocrate_id ELSE rocrate_id

ZipName(root_path, crate_id) == RocratePath(root_path, crate_id) \o <<".zip">>
DirMemberName(root_path, crate_id) ==
    RocratePath(root_path, crate_id) \o Slash \o <<"ro-crate-metadata.json">>

\* the objects a bucket may hold in this model: every crate in zip form and
\* in directory form, and every crate's result
ObjectNames ==
    UNION {{ZipName(r, c), DirMemberName(r, c), ValidationObjectName(r, c)} :
           r \in RootPaths, c \in CrateIds}

get_minio_client(minio_config) ==
    [endpoint |-> minio_config.endpoint, access_key |-> minio_config.accesskey,
     secret_key |-> minio_config.secret, secure |-> minio_config.ssl]

\* position of the first "/" of s at or after position i, 0 if none
RECURSIVE FirstSlash(_, _)
FirstSlash(s, i) ==
    IF i > Len(s) THEN 0
    ELSE IF s[i] = "/" THEN i
    ELSE FirstSlash(s, i + 1)

\* minio_client.list_objects(bucket, prefix, recursive): the objects of the
\* bucket whose name starts with prefix; when not recursive, names that go
\* on past a "/" after the prefix are rolled up into one directory entry
\* ending at that "/"
ListObjects(objects, bucket, prefix, recursive) ==
    IF bucket # TheBucket THEN {}
    ELSE LET hits == {n \in DOMAIN objects : IsPrefix(prefix, n)}
             Entry(n) ==
                 LET k == FirstSlash(n, Len(prefix) + 1)
                 IN  IF recursive \/ k = 0
                     THEN [object_name |-> n, is_dir |-> FALSE]
                     ELSE [object_name |-> SubSeq(n, 1, k), is_dir |-> TRUE]
         IN  {Entry(n) : n \in hits}

get_minio_object_list(objects, object_path, minio_client, minio_bucket, recursive) ==
    ListObjects(objects, minio_bucket, object_path, recursive)

\* the lookups: the matching listing entries; the code returns the first of
\* them, or False when there is none
find_rocrate_object_on_minio(objects, rocrate_id, minio_client, minio_bucket, root_path) ==
    LET rocrate_path == RocratePath(root_path, rocrate_id)
        rocrate_list == get_minio_object_list(objects, rocrate_path, minio_client, minio_bucket, FALSE)
        matches == {obj \in rocrate_list :
                        \/ (obj.object_name = rocrate_path \o Slash /\ obj.is_dir)
                        \/ obj.object_name = rocrate_path \o <<".zip">>}
    IN  matches

find_validation_object_on_minio(objects, rocrate_id, minio_client, minio_bucket, root_path) ==
    LET file_path == ValidationObjectName(root_path, rocrate_id)
        file_list == get_minio_object_list(objects, file_path, minio_client, minio_bucket, FALSE)
    IN  {obj \in file_list : obj.object_name = file_path}

check_ro_crate_exists(objects, minio_client, bucket_name, crate_id, root_path) ==
    find_rocrate_object_on_minio(objects, crate_id, minio_client, bucket_name, root_path) # {}

check_validation_exists(objects, minio_client, bucket_name, crate_id, root_path) ==
    find_validation_object_on_minio(objects, crate_id, minio_client, bucket_name, root_path) # {}

get_validation_status_from_minio(objects, minio_client, minio_bucket, crate_id, root_path) ==
    json_loads_value(objects[get_object_name(root_path, crate_id)])

return_ro_crate_validation(objects, minio_client, bucket_name, crate_id, root_path) ==
    get_validation_status_from_minio(objects, minio_client, bucket_name, crate_id, root_path)

\* ------------------------------------------------------ requests, state
ProfileNames == {None, <<"default">>}
WebhookUrls == {None, <<>>, <<"http://webhook">>}

\* what an object of the bucket may hold
ObjectData(n) ==
    IF \E r \in RootPaths, c \in CrateIds : n = ValidationObjectName(r, c)
    THEN ResultValues
    ELSE {<<"bytes">>}

StoreStates ==
    UNION {{f \in [S -> ResultValues \cup {<<"bytes">>}] : \A n \in S : f[n] \in ObjectData(n)} :
           S \in {T \in SUBSET ObjectNames : Cardinality(T) <= MaxObjects}}

VARIABLES
    objects,    \* the bucket: object name -> content
    broker_up,  \* whether the broker accepts messages
    queue,      \* messages on the broker, oldest first
    next_id,    \* id the next message gets
    pc,         \* the HTTP handler: "idle", "meta_wait" (blocked in result.get()), "done"
    req,        \* arguments of the service call being served
    snap,       \* the store and the broker as they were when the call was made
    calls,      \* the collaborator calls the service call has made, in order
    resp,       \* what the service call returned or raised
    worker,     \* the worker's by-metadata task run
    backend,    \* result backend: message id -> the task's return value
    webhooks,   \* payloads delivered to webhook URLs, in order
    runs,       \* the runs of the by-reference task: run id -> its progress
    writes,     \* the result objects the runs have written, in order
    reads,      \* the outcomes of the latest reads of a stored result, in order
    adapter,    \* the latest direct call of a store adapter function, and what it gave
    request     \* the HTTP request a route handler was last given

vars == <<objects, broker_up, queue, next_id, pc, req, snap, calls, resp, worker, backend, webhooks, runs, writes, reads, adapter, request>>

Body(field, text, arg) == [field |-> field, text |-> text, arg |-> arg]
NoResp == [kind |-> "none", exc |-> "", status |-> 0, body |-> Body("", "", None)]
Returned(status, body) == [kind |-> "returned", exc |-> "", status |-> status, body |-> body]
\* an exception leaving the service function; status is the exception's
\* status_code, 0 when it has none
Raised(exc, status, body) == [kind |-> "raised", exc |-> exc, status |-> status, body |-> body]

Call(fn, args) == [fn |-> fn, args |-> args]
CallFns(cs) == [i \in 1..Len(cs) |-> cs[i].fn]
CallsTo(cs, fn) == {i \in 1..Len(cs) : cs[i].fn = fn}

NoConfig == [endpoint |-> "", accesskey |-> "", secret |-> "", ssl |-> FALSE, bucket |-> None]
NoReq == [op |-> "none", minio_bucket |-> NoConfig, crate_id |-> None, root_path |-> None,
          profile_name |-> None, webhook_url |-> None, crate_json |-> None, task_id |-> 0 - 1]
NoExit == [raised |-> NoResp, value |-> None, invoked |-> <<>>]
\* a keyword argument that is not handed to ValidationSettings
Absent == <<"<absent>">>
NoSettings == [metadata_only |-> FALSE, profile_identifier |-> Absent, skip_checks |-> Absent]
IdleWorker == [state |-> "idle", id |-> 0 - 1, args |-> <<>>, engine |-> "none",
               validation_result |-> [raised |-> NoResp, is_str |-> TRUE, text |-> None, engine_called |-> FALSE,
                                      settings |-> NoSettings],
               exit |-> NoExit]

\* -------------------------------------------------------------- broker
\* positional parameters of the two Celery tasks (required, optional)
TaskSignature(task) ==
    IF task = "process_validation_task_by_id"
    THEN [required |-> 6, optional |-> 0]
    ELSE [required |-> 3, optional |-> 1]

\* task.delay(*args): Celery checks the arguments against the task's
\* signature (TypeError), then publishes to the broker, which raises when
\* it is unreachable
Delay(task, args, up) ==
    IF ~BindsOK(TaskSignature(task).required, TaskSignature(task).optional, args)
    THEN [ok |-> FALSE, error |-> <<"TypeError">>]
    ELSE IF ~up
    THEN [ok |-> FALSE, error |-> <<"broker unreachable">>]
    ELSE [ok |-> TRUE, error |-> None]

\* a message that loses the webhook URL on its way to the broker
Message_dropsWebhook(id, task, args) ==
    [id |-> id, task |-> task, args |-> <<args[1], args[2], None>>]

Message(id, task, args) == [id |-> id, task |-> task, args |-> args]

\* ----------------------------------------------- validation_service.py
\* queue_ro_crate_validation_task: the whole service call; the request is
\* its caller's
queue_ro_crate_validation_task(minio_bucket, crate_id, root_path, profile_name, webhook_url) ==
    /\ pc # "meta_wait"
    /\ Len(queue) < MaxQueue
    /\ pc' = "done"
    /\ req' = [NoReq EXCEPT !.op = "queue_ro_crate_validation_task",
                            !.minio_bucket = minio_bucket, !.crate_id = crate_id,
                            !.root_path = root_path, !.profile_name = profile_name,
                            !.webhook_url = webhook_url]
    /\ snap' = [objects |-> objects, broker_up |-> broker_up]
    /\ LET check_args == <<minio_bucket, crate_id, root_path>>
           check_call == Call("check_ro_crate_exists", check_args)
           delay_args == <<minio_bucket, crate_id, root_path, profile_name, webhook_url>>
           delay_call == Call("process_validation_task_by_id.delay", delay_args)
           sent == Delay("process_validation_task_by_id", delay_args, broker_up)
       IN  IF ~BindsOK(4, 0, check_args)
           THEN \* check_ro_crate_exists takes (minio_client, bucket_name, crate_id, root_path)
                /\ resp' = Raised("TypeError", 0,
                                  Body("", "check_ro_crate_exists() missing 1 required positional argument: 'root_path'", None))
                /\ calls' = <<check_call>>
                /\ UNCHANGED <<queue, next_id>>
           ELSE IF ~check_ro_crate_exists(objects, check_args[1], check_args[2], check_args[3], check_args[4])
           THEN /\ resp' = Raised("InvalidAPIUsage", 400,
                                  Body("message", "No RO-Crate with prefix: ", crate_id))
                /\ calls' = <<check_call>>
                /\ UNCHANGED <<queue, next_id>>
           ELSE IF sent.ok
           THEN /\ resp' = Returned(202, Body("message", "Validation in progress", None))
                /\ calls' = <<check_call, delay_call>>
                /\ queue' = Append(queue, Message(next_id, "process_validation_task_by_id", delay_args))
                /\ next_id' = next_id + 1
           ELSE /\ resp' = Returned(500, Body("error", "", sent.error))
                /\ calls' = <<check_call, delay_call>>
                /\ UNCHANGED <<queue, next_id>>
    /\ UNCHANGED <<objects, broker_up, worker, backend, webhooks, runs, writes, reads, adapter>>

\* ------------------------------------------------------- post_routes.py
\* a key the request body does not have
Missing == <<"<missing>">>

\* json_data as the input decorator hands it to a handler of ValidateData
\* (partial=True): each of the three keys is there or not
JsonBodies ==
    [crate_id : CrateIds \cup {Missing},
     profile_name : {<<"default">>, Missing},
     webhook_url : {<<"http://webhook">>, Missing}]

NoRequest == [route |-> "none",
              json_data |-> [crate_id |-> Missing, profile_name |-> Missing, webhook_url |-> Missing]]

\* the handler left by an exception that is no HTTP exception
HandlerRaises(route, json_data, exc, text) ==
    /\ pc # "meta_wait"
    /\ pc' = "done"
    /\ request' = [route |-> route, json_data |-> json_data]
    /\ req' = NoReq
    /\ calls' = <<>>
    /\ resp' = Raised(exc, 0, Body("", text, None))
    /\ UNCHANGED <<objects, broker_up, queue, next_id, snap, worker, backend, webhooks, runs,
                   writes, reads, adapter>>

\* validate_ro_crate_from_id, POST /validate_by_id: KeyError for a missing
\* crate_id or webhook_url; otherwise the service function is called with
\* the three positional arguments (crate_id, profile_name, webhook_url),
\* which it binds to its first three parameters (minio_bucket, crate_id,
\* root_path)
validate_ro_crate_from_id(json_data) ==
    IF json_data.crate_id = Missing
    THEN HandlerRaises("validate_by_id", json_data, "KeyError", "Missing required parameter: 'crate_id'")
    ELSE IF json_data.webhook_url = Missing
    THEN HandlerRaises("validate_by_id", json_data, "KeyError", "Missing required parameter: 'webhook_url'")
    ELSE /\ request' = [route |-> "validate_by_id", json_data |-> json_data]
         /\ queue_ro_crate_validation_task(
                json_data.crate_id,
                IF json_data.profile_name = Missing THEN None ELSE json_data.profile_name,
                json_data.webhook_url,
                None, None)

\* validate_ro_crate_from_id_no_webhook, POST /validate_by_id_no_webhook:
\* KeyError for a missing crate_id; otherwise the service function is called
\* with (crate_id, profile_name)
validate_ro_crate_from_id_no_webhook(json_data) ==
    IF json_data.crate_id = Missing
    THEN HandlerRaises("validate_by_id_no_webhook", json_data, "KeyError", "Missing required parameter: 'id'")
    ELSE /\ request' = [route |-> "validate_by_id_no_webhook", json_data |-> json_data]
         /\ queue_ro_crate_validation_task(
                json_data.crate_id,
                IF json_data.profile_name = Missing THEN None ELSE json_data.profile_name,
                None, None, None)


\* get_ro_crate_validation_task: the whole service call
get_ro_crate_validation_task(minio_bucket, crate_id, root_path) ==
    /\ pc # "meta_wait"
    /\ pc' = "done"
    /\ req' = [NoReq EXCEPT !.op = "get_ro_crate_validation_task",
                            !.minio_bucket = minio_bucket, !.crate_id = crate_id,
                            !.root_path = root_path]
    /\ snap' = [objects |-> objects, broker_up |-> broker_up]
    /\ LET args == <<minio_bucket, crate_id, root_path>>
           crate_call == Call("check_ro_crate_exists", args)
           validation_call == Call("check_validation_exists", args)
           return_call == Call("return_ro_crate_validation", args)
       IN  IF ~BindsOK(4, 0, args)
           THEN /\ resp' = Raised("TypeError", 0,
                                  Body("", "check_ro_crate_exists() missing 1 required positional argument: 'root_path'", None))
                /\ calls' = <<crate_call>>
           ELSE IF ~check_ro_crate_exists(objects, args[1], args[2], args[3], args[4])
           THEN /\ resp' = Raised("InvalidAPIUsage", 400,
                                  Body("message", "No RO-Crate with prefix: ", crate_id))
                /\ calls' = <<crate_call>>
           ELSE IF ~check_validation_exists(objects, args[1], args[2], args[3], args[4])
           THEN /\ resp' = Raised("InvalidAPIUsage", 400,
                                  Body("message", "No validation result yet for RO-Crate: ", crate_id))
                /\ calls' = <<crate_call, validation_call>>
           ELSE /\ resp' = Returned(200, Body("stored", "",
                                  return_ro_crate_validation(objects, args[1], args[2], args[3], args[4])))
                /\ calls' = <<crate_call, validation_call, return_call>>
    /\ UNCHANGED <<objects, broker_up, queue, next_id, worker, backend, webhooks, runs, writes, reads, adapter, request>>

\* the input checks without the test for a missing crate_json
crate_json_check_noMissingCheck(crate_json) ==
    LET json_dict == json_loads(crate_json)
        loads_call == Call("json.loads", <<crate_json>>)
        len_call == Call("len", <<json_dict.type>>)
    IN  IF json_dict.raised
        THEN [exit |-> "not valid JSON", calls |-> <<loads_call>>]
        ELSE IF ~HasLen(json_dict.type)
        THEN [exit |-> "TypeError", calls |-> <<loads_call, len_call>>]
        ELSE IF json_dict.len = 0
        THEN [exit |-> "empty", calls |-> <<loads_call, len_call>>]
        ELSE [exit |-> "ok", calls |-> <<loads_call, len_call>>]

\* the input checks of queue_ro_crate_metadata_validation_task: which exit
\* the call takes, and the calls made on the way.  len() of a parsed value
\* that has no length raises TypeError, which no handler of the function
\* catches.
crate_json_check(crate_json) ==
    IF ~Truthy(crate_json)
    THEN [exit |-> "missing", calls |-> <<>>]
    ELSE LET json_dict == json_loads(crate_json)
             loads_call == Call("json.loads", <<crate_json>>)
             len_call == Call("len", <<json_dict.type>>)
         IN  IF json_dict.raised
             THEN [exit |-> "not valid JSON", calls |-> <<loads_call>>]
             ELSE IF ~HasLen(json_dict.type)
             THEN [exit |-> "TypeError", calls |-> <<loads_call, len_call>>]
             ELSE IF json_dict.len = 0
             THEN [exit |-> "empty", calls |-> <<loads_call, len_call>>]
             ELSE [exit |-> "ok", calls |-> <<loads_call, len_call>>]

\* AsyncResult.get() returns once the backend holds the task's result
result_ready(results, task_id) == task_id \in DOMAIN results

\* queue_ro_crate_metadata_validation_task, from its entry to its first
\* return or to the blocking result.get()
queue_ro_crate_metadata_validation_task(crate_json, profile_name, webhook_url) ==
    /\ pc = "idle"
    /\ Len(queue) < MaxQueue
    /\ req' = [NoReq EXCEPT !.op = "queue_ro_crate_metadata_validation_task",
                            !.crate_json = crate_json, !.profile_name = profile_name,
                            !.webhook_url = webhook_url, !.task_id = next_id]
    /\ snap' = [objects |-> objects, broker_up |-> broker_up]
    /\ LET checked == crate_json_check(crate_json)
           delay_args == <<crate_json, profile_name, webhook_url>>
           delay_call == Call("process_validation_task_by_metadata.delay", delay_args)
           sent == Delay("process_validation_task_by_metadata", delay_args, broker_up)
       IN  IF checked.exit # "ok"
           THEN /\ pc' = "done"
                /\ calls' = checked.calls
                /\ resp' = CASE checked.exit = "missing" ->
                                   Returned(422, Body("error", "Missing required parameter: crate_json", None))
                             [] checked.exit = "not valid JSON" ->
                                   Returned(422, Body("error", "Required parameter crate_json is not valid JSON: ",
                                                      <<"JSONDecodeError">>))
                             [] checked.exit = "empty" ->
                                   Returned(422, Body("error", "Required parameter crate_json is empty", None))
                             [] OTHER ->
                                   Raised("TypeError", 0, Body("", "object has no len()", None))
                /\ UNCHANGED <<queue, next_id>>
           ELSE IF ~sent.ok
           THEN /\ pc' = "done"
                /\ calls' = checked.calls \o <<delay_call>>
                /\ resp' = Returned(500, Body("error", "", sent.error))
                /\ UNCHANGED <<queue, next_id>>
           ELSE /\ calls' = checked.calls \o <<delay_call>>
                /\ queue' = Append(queue, Message(next_id, "process_validation_task_by_metadata", delay_args))
                /\ next_id' = next_id + 1
                /\ IF Truthy(webhook_url)
                   THEN /\ pc' = "done"
                        /\ resp' = Returned(202, Body("message", "Validation in progress", None))
                   ELSE /\ pc' = "meta_wait"
                        /\ resp' = NoResp
    /\ UNCHANGED <<objects, broker_up, worker, backend, webhooks, runs, writes, reads, adapter, request>>

\* result.get() returns: the rest of queue_ro_crate_metadata_validation_task
metadata_result_get ==
    /\ pc = "meta_wait"
    /\ result_ready(backend, req.task_id)
    /\ pc' = "done"
    /\ calls' = Append(calls, Call("result.get", <<>>))
    /\ resp' = Returned(200, Body("result", "", backend[req.task_id]))
    /\ UNCHANGED <<objects, broker_up, queue, next_id, req, snap, worker, backend, webhooks, runs, writes, reads, adapter, request>>

\* --------------------------------------------------- validation_tasks.py
\* what building the settings and running the validation engine do with one
\* document: the settings constructor raises, or the engine raises, or the
\* engine returns a result (with or without issues)
EngineOutcomes == {"passed", "issues", "raises", "settings_raises"}

\* a str() that gives the empty string for every exception
ExceptionStr_alwaysEmpty(e) == <<>>

\* str(e): InvalidAPIUsage.__init__ hands no message to Exception.__init__,
\* so the str() of an InvalidAPIUsage is the empty string; its text is in
\* e.message only
ExceptionStr(e) ==
    IF e.exc = "InvalidAPIUsage" THEN <<>> ELSE <<e.body.text>> \o e.body.arg

\* the keyword arguments perform_metadata_validation hands to
\* ValidationSettings: metadata_only always, profile_identifier and
\* skip_checks only when the argument is truthy
metadata_settings(profile_name, skip_checks_list) ==
    [metadata_only |-> TRUE,
     profile_identifier |-> IF Truthy(profile_name) THEN profile_name ELSE Absent,
     skip_checks |-> IF Truthy(skip_checks_list) THEN skip_checks_list ELSE Absent]

\* perform_metadata_validation giving one fixed text for every failure
perform_metadata_validation_hidesReason(crate_json, profile_name, skip_checks_list, engine) ==
    IF json_loads(crate_json).raised \/ engine = "settings_raises"
    THEN [raised |-> NoResp, is_str |-> TRUE, text |-> <<"validation error">>, engine_called |-> FALSE,
          settings |-> NoSettings]
    ELSE IF engine = "raises"
    THEN [raised |-> NoResp, is_str |-> TRUE, text |-> <<"validation error">>, engine_called |-> TRUE,
          settings |-> metadata_settings(profile_name, skip_checks_list)]
    ELSE [raised |-> NoResp, is_str |-> FALSE, text |-> <<"json", engine>>, engine_called |-> TRUE,
          settings |-> metadata_settings(profile_name, skip_checks_list)]

\* perform_metadata_validation: the engine's result, or the message of
\* whatever building the settings or running the engine raised; settings
\* are the ones the engine was given
perform_metadata_validation(crate_json, profile_name, skip_checks_list, engine) ==
    IF json_loads(crate_json).raised
    THEN [raised |-> NoResp, is_str |-> TRUE, text |-> <<"JSONDecodeError">>, engine_called |-> FALSE,
          settings |-> NoSettings]
    ELSE IF engine = "settings_raises"
    THEN [raised |-> NoResp, is_str |-> TRUE, text |-> <<"settings error">>, engine_called |-> FALSE,
          settings |-> NoSettings]
    ELSE IF engine = "raises"
    THEN [raised |-> NoResp, is_str |-> TRUE, text |-> <<"engine error">>, engine_called |-> TRUE,
          settings |-> metadata_settings(profile_name, skip_checks_list)]
    ELSE [raised |-> NoResp, is_str |-> FALSE, text |-> <<"json", engine>>, engine_called |-> TRUE,
          settings |-> metadata_settings(profile_name, skip_checks_list)]

\* send_webhook_notification(url, data): the payload reaches the URL, or the
\* delivery fails and the sender raises
send_webhook_notification(webhook_url, data, delivered) ==
    IF delivered
    THEN [raised |-> NoResp, sent |-> <<[url |-> webhook_url, payload |-> data]>>]
    ELSE [raised |-> Raised("Exception", 0, Body("", "webhook delivery failed", <<>>)),
          sent |-> <<>>]

\* process_validation_task_by_metadata, first half: the worker takes the
\* oldest message and validates its document
metadata_task_validate(engine) ==
    /\ worker.state = "idle"
    /\ queue # <<>>
    /\ Head(queue).task = "process_validation_task_by_metadata"
    /\ LET m == Head(queue)
       IN  worker' = [state |-> "validated", id |-> m.id, args |-> m.args, engine |-> engine,
                      validation_result |-> perform_metadata_validation(m.args[1], m.args[2], None, engine),
                      exit |-> NoExit]
    /\ queue' = Tail(queue)
    /\ UNCHANGED <<objects, broker_up, next_id, pc, req, snap, calls, resp, backend, webhooks, runs, writes, reads, adapter, request>>

\* process_validation_task_by_metadata without the return of its finally
\* clause: an exception left in flight by the except handler leaves the task
process_validation_task_by_metadata_noFinallyReturn(validation_result, profile_name, webhook_url, delivered, delivered_error) ==
    LET first_data == [kind |-> "result", profile_name |-> None, text |-> validation_result.text]
        first == send_webhook_notification(webhook_url, first_data, delivered)
        e == IF validation_result.is_str
             THEN Raised("Exception", 0, Body("", "Validation failed: ", validation_result.text))
             ELSE IF Truthy(webhook_url) THEN first.raised ELSE NoResp
        error_data == [kind |-> "error", profile_name |-> profile_name, text |-> ExceptionStr(e)]
        second == send_webhook_notification(webhook_url, error_data, delivered_error)
        in_flight == IF e # NoResp /\ Truthy(webhook_url) THEN second.raised ELSE NoResp
    IN  [raised |-> in_flight,
         value |-> validation_result.text,
         invoked |-> (IF ~validation_result.is_str /\ Truthy(webhook_url)
                      THEN <<[url |-> webhook_url, payload |-> first_data]>> ELSE <<>>)
                     \o (IF e # NoResp /\ Truthy(webhook_url)
                         THEN <<[url |-> webhook_url, payload |-> error_data]>> ELSE <<>>),
         sent |-> (IF ~validation_result.is_str /\ Truthy(webhook_url) THEN first.sent ELSE <<>>)
                  \o (IF e # NoResp /\ Truthy(webhook_url) THEN second.sent ELSE <<>>)]

\* process_validation_task_by_metadata after the validation: the rest of
\* the try body (a failure string is raised as an Exception; a result goes
\* to the webhook if one was given), the except handler (the failure
\* payload goes to the webhook if one was given) and the finally clause,
\* whose return discards whatever exception is in flight
process_validation_task_by_metadata(validation_result, profile_name, webhook_url, delivered, delivered_error) ==
    LET first_data == [kind |-> "result", profile_name |-> None, text |-> validation_result.text]
        first == send_webhook_notification(webhook_url, first_data, delivered)
        e == IF validation_result.is_str
             THEN Raised("Exception", 0, Body("", "Validation failed: ", validation_result.text))
             ELSE IF Truthy(webhook_url) THEN first.raised ELSE NoResp
        error_data == [kind |-> "error", profile_name |-> profile_name, text |-> ExceptionStr(e)]
        second == send_webhook_notification(webhook_url, error_data, delivered_error)
    IN  [raised |-> NoResp,
         value |-> validation_result.text,
         invoked |-> (IF ~validation_result.is_str /\ Truthy(webhook_url)
                      THEN <<[url |-> webhook_url, payload |-> first_data]>> ELSE <<>>)
                     \o (IF e # NoResp /\ Truthy(webhook_url)
                         THEN <<[url |-> webhook_url, payload |-> error_data]>> ELSE <<>>),
         sent |-> (IF ~validation_result.is_str /\ Truthy(webhook_url) THEN first.sent ELSE <<>>)
                  \o (IF e # NoResp /\ Truthy(webhook_url) THEN second.sent ELSE <<>>)]

\* process_validation_task_by_metadata, second half: the worker finishes the
\* task; what it returned goes to the result backend
metadata_task_return(delivered, delivered_error) ==
    /\ worker.state = "validated"
    /\ LET exit == process_validation_task_by_metadata(worker.validation_result, worker.args[2],
                                                       worker.args[3], delivered, delivered_error)
       IN  /\ webhooks' = webhooks \o exit.sent
           /\ backend' = [i \in DOMAIN backend \cup {worker.id} |->
                            IF i = worker.id
                            THEN (IF exit.raised = NoResp THEN exit.value ELSE <<"FAILURE">>)
                            ELSE backend[i]]
           /\ worker' = [IdleWorker EXCEPT !.exit = [raised |-> exit.raised, value |-> exit.value, invoked |-> exit.invoked],
                                           !.args = worker.args,
                                           !.engine = worker.engine,
                                           !.validation_result = worker.validation_result]
    /\ UNCHANGED <<objects, broker_up, queue, next_id, pc, req, snap, calls, resp, runs, writes, reads, adapter, request>>

\* ----------------------------------------------------- minio_utils.py
\* what makes a call on the MinIO client fail
ErrorCauses == {"S3Error", "ValueError", "Exception"}

\* a fault: the client call it strikes, and what that call raises
NoFault == [op |-> "none", cause |-> "none"]
Faults(ops, causes) == {NoFault} \cup [op : ops, cause : causes]

\* the except clauses of get_minio_object_list
get_minio_object_list_raises(cause) ==
    IF cause = "S3Error"
    THEN Raised("InvalidAPIUsage", 500, Body("message", "MinIO S3 Error: ", <<cause>>))
    ELSE IF cause = "ValueError"
    THEN Raised("InvalidAPIUsage", 500, Body("message", "Configuration Error: ", <<cause>>))
    ELSE Raised("InvalidAPIUsage", 500, Body("message", "Unknown Error: ", <<cause>>))

\* the except clauses of download_file_from_minio
download_file_from_minio_raises(cause) ==
    IF cause = "S3Error"
    THEN Raised("InvalidAPIUsage", 500, Body("message", "MinIO S3 Error: ", <<cause>>))
    ELSE IF cause = "ValueError"
    THEN Raised("InvalidAPIUsage", 500, Body("message", "Configuration Error: ", <<cause>>))
    ELSE Raised("InvalidAPIUsage", 500, Body("message", "Unknown Error: ", <<cause>>))

\* the except clauses of update_validation_status_in_minio
update_validation_status_in_minio_raises(cause) ==
    IF cause = "S3Error"
    THEN Raised("InvalidAPIUsage", 500, Body("message", "MinIO S3 Error: ", <<cause>>))
    ELSE IF cause = "ValueError"
    THEN Raised("InvalidAPIUsage", 500, Body("message", "Configuration Error: ", <<cause>>))
    ELSE Raised("InvalidAPIUsage", 500, Body("message", "Unknown Error: ", <<cause>>))

\* the except clauses of get_validation_status_from_minio, with a ValueError
\* read as any other exception
get_validation_status_from_minio_raises_noValueError(cause) ==
    IF cause = "S3Error"
    THEN Raised("InvalidAPIUsage", 500, Body("message", "MinIO S3 Error: ", <<cause>>))
    ELSE Raised("InvalidAPIUsage", 500, Body("message", "Unknown Error: ", <<cause>>))

\* the except clauses of get_validation_status_from_minio
get_validation_status_from_minio_raises(cause) ==
    IF cause = "S3Error"
    THEN Raised("InvalidAPIUsage", 500, Body("message", "MinIO S3 Error: ", <<cause>>))
    ELSE IF cause = "ValueError"
    THEN Raised("InvalidAPIUsage", 500, Body("message", "Configuration Error: ", <<cause>>))
    ELSE Raised("InvalidAPIUsage", 500, Body("message", "Unknown Error: ", <<cause>>))

\* the local file system: paths are token sequences, a directory is an
\* entry with is_dir
Dir(path) == [path |-> path, is_dir |-> TRUE]
File(path) == [path |-> path, is_dir |-> FALSE]

\* a path without its trailing "/"
NormPath(path) ==
    IF path # <<>> /\ path[Len(path)] = "/" THEN SubSeq(path, 1, Len(path) - 1) ELSE path

\* os.path.join(a, b)
PathJoin(a, b) ==
    IF a # <<>> /\ a[Len(a)] = "/" THEN a \o b ELSE a \o Slash \o b

os_path_isfile(files, path) == File(path) \in files
os_path_isdir(files, path) == Dir(NormPath(path)) \in files
os_path_exists(files, path) == os_path_isfile(files, path) \/ os_path_isdir(files, path)
os_remove(files, path) == files \ {File(path)}
shutil_rmtree(files, path) ==
    {f \in files : ~(f.path = NormPath(path) \/ IsPrefix(NormPath(path) \o Slash, f.path))}

\* position of the last "/" of s at or before position i, 0 if none
RECURSIVE LastSlash(_, _)
LastSlash(s, i) ==
    IF i = 0 THEN 0
    ELSE IF s[i] = "/" THEN i
    ELSE LastSlash(s, i - 1)

\* s.split('/')[-1]
LastSegment(s) == SubSeq(s, LastSlash(s, Len(s)) + 1, Len(s))

\* s.lstrip("/")
RECURSIVE LStripSlash(_)
LStripSlash(s) ==
    IF s # <<>> /\ Head(s) = "/" THEN LStripSlash(Tail(s)) ELSE s

\* tempfile.mkdtemp(): a fresh directory of the run's own
TempDir == <<"tmpdir">>

\* fetch_ro_crate_from_minio: what it raises (NoResp when it returns), the
\* path it returns, the local files and directories it has created by then
\* and the client calls it has made.  A listing names a zip before the
\* directory of the same crate.
fetch_ro_crate_from_minio(stored, minio_client, minio_bucket, crate_id, root_path, fault) ==
    LET found == find_rocrate_object_on_minio(stored, crate_id, minio_client, minio_bucket, root_path)
        zips == {o \in found : ~o.is_dir}
        rocrate_object == IF zips # {} THEN CHOOSE o \in zips : TRUE ELSE CHOOSE o \in found : TRUE
        rocrate_minio_path == rocrate_object.object_name
        rocrate_name == LastSegment(rocrate_minio_path)
        temp_dir == TempDir
        local_root_path == PathJoin(temp_dir, rocrate_name)
        objects_list == get_minio_object_list(stored, rocrate_minio_path, minio_client, minio_bucket, TRUE)
        local_file_path(obj) ==
            PathJoin(local_root_path,
                     LStripSlash(SubSeq(obj.object_name, Len(rocrate_minio_path) + 1, Len(obj.object_name))))
    IN  IF fault.op = "list_objects"
        THEN [raised |-> get_minio_object_list_raises(fault.cause), path |-> None, files |-> {},
              calls |-> <<"list_objects">>, struck |-> TRUE]
        ELSE IF found = {}
        THEN [raised |-> Raised("AttributeError", 0,
                                Body("", "'bool' object has no attribute 'object_name'", <<>>)),
              path |-> None, files |-> {}, calls |-> <<"list_objects">>, struck |-> FALSE]
        ELSE IF rocrate_object.is_dir
        THEN IF fault.op = "list_objects_recursive"
             THEN [raised |-> get_minio_object_list_raises(fault.cause), path |-> None,
                   files |-> {Dir(temp_dir)}, calls |-> <<"list_objects", "list_objects_recursive">>,
                   struck |-> TRUE]
             ELSE IF fault.op = "fget_object" /\ objects_list # {}
             THEN [raised |-> download_file_from_minio_raises(fault.cause), path |-> None,
                   files |-> {Dir(temp_dir)},
                   calls |-> <<"list_objects", "list_objects_recursive", "fget_object">>,
                   struck |-> TRUE]
             ELSE [raised |-> NoResp, path |-> local_root_path,
                   files |-> {Dir(temp_dir)} \cup {File(local_file_path(o)) : o \in objects_list},
                   calls |-> <<"list_objects", "list_objects_recursive">>
                             \o [i \in 1..Cardinality(objects_list) |-> "fget_object"],
                   struck |-> FALSE]
        ELSE IF fault.op = "fget_object"
        THEN [raised |-> download_file_from_minio_raises(fault.cause), path |-> None,
              files |-> {Dir(temp_dir)}, calls |-> <<"list_objects", "fget_object">>,
              struck |-> TRUE]
        ELSE [raised |-> NoResp, path |-> local_root_path,
              files |-> {Dir(temp_dir), File(local_root_path)},
              calls |-> <<"list_objects", "fget_object">>, struck |-> FALSE]

\* a line break of an indented JSON text
NotLineBreak(token) == token # "\n"

\* a re-serialisation that loses the end of the text
json_dumps_loads_truncated(text) ==
    SubSeq(SelectSeq(text, NotLineBreak), 1, Len(SelectSeq(text, NotLineBreak)) - 1)

\* json.dumps(value, indent=None): one line, a space after the colon of
\* every key
RECURSIVE json_dumps(_)
json_dumps(value) ==
    IF value = <<>> THEN <<>>
    ELSE IF Head(value) = "k:" THEN <<"k:", " ">> \o json_dumps(Tail(value))
    ELSE <<Head(value)>> \o json_dumps(Tail(value))

\* json.dumps(json.loads(text), indent=None): the value of the text,
\* serialised again on one line
json_dumps_loads(text) == json_dumps(json_loads_value(text))

\* minio_client.put_object that leaves an object that is already there
put_object_keepsFirst(stored, object_name, data) ==
    [n \in DOMAIN stored \cup {object_name} |->
        IF n \in DOMAIN stored THEN stored[n] ELSE data]

\* minio_client.put_object(bucket, object_name, data): the object is
\* created, or replaced
put_object(stored, object_name, data) ==
    [n \in DOMAIN stored \cup {object_name} |->
        IF n = object_name THEN data ELSE stored[n]]

\* update_validation_status_in_minio: what it raises, the store it leaves,
\* the object it wrote and the client calls it has made
update_validation_status_in_minio(stored, minio_client, minio_bucket, crate_id, root_path, validation_status, fault) ==
    LET object_name == update_object_name(root_path, crate_id)
        validation_string == json_dumps_loads(validation_status)
    IN  IF fault.op = "put_object"
        THEN [raised |-> update_validation_status_in_minio_raises(fault.cause), stored |-> stored,
              object_name |-> object_name, data |-> validation_string, calls |-> <<"put_object">>]
        ELSE [raised |-> NoResp, stored |-> put_object(stored, object_name, validation_string),
              object_name |-> object_name, data |-> validation_string, calls |-> <<"put_object">>]

\* return_ro_crate_validation as the fetch is to reach it: the stored result
\* is read and returned, or the read raises; reading an object that is not
\* there is an S3Error of the client
read_validation_status(stored, minio_client, minio_bucket, crate_id, root_path, fault) ==
    IF fault.op = "get_object"
    THEN [raised |-> get_validation_status_from_minio_raises(fault.cause), value |-> None,
          calls |-> <<"get_object">>]
    ELSE IF get_object_name(root_path, crate_id) \notin DOMAIN stored
    THEN [raised |-> get_validation_status_from_minio_raises("S3Error"), value |-> None,
          calls |-> <<"get_object">>]
    ELSE [raised |-> NoResp,
          value |-> return_ro_crate_validation(stored, minio_client, minio_bucket, crate_id, root_path),
          calls |-> <<"get_object">>]

\* ------------------------------- minio_utils.py, the lookups called directly
\* Python's False, as the lookups return it for "no such object"
False == [object_name |-> <<"False">>, is_dir |-> FALSE]

\* the orders in which a listing may name the entries it holds
Orderings(S) ==
    {s \in [1..Cardinality(S) -> S] : \A i, j \in 1..Cardinality(S) : i # j => s[i] # s[j]}

\* the loop of find_rocrate_object_on_minio taking every entry whose name
\* starts with the crate's path
rocrate_loop_anyPrefix(rocrate_list, rocrate_path) ==
    IF rocrate_list = <<>> THEN False ELSE Head(rocrate_list)

\* the loop of find_rocrate_object_on_minio over the listing, in its order:
\* the first entry that is the crate's directory or the crate's zip, False
\* when the loop ends without one
RECURSIVE rocrate_loop(_, _)
rocrate_loop(rocrate_list, rocrate_path) ==
    IF rocrate_list = <<>> THEN False
    ELSE LET obj == Head(rocrate_list)
         IN  IF \/ (obj.object_name = rocrate_path \o Slash /\ obj.is_dir)
                \/ obj.object_name = rocrate_path \o <<".zip">>
             THEN obj
             ELSE rocrate_loop(Tail(rocrate_list), rocrate_path)

NoAdapter == [op |-> "none", crate_id |-> None, root_path |-> None, listing |-> <<>>,
              result |-> False, exists |-> FALSE, raised |-> NoResp,
              given |-> None, stored |-> None, value |-> None]

\* find_rocrate_object_on_minio and check_ro_crate_exists called for a
\* crate, the client listing the entries in the order rocrate_list
find_rocrate_object_on_minio_call(minio_config, crate_id, root_path, rocrate_list) ==
    /\ rocrate_list \in Orderings(get_minio_object_list(objects, RocratePath(root_path, crate_id),
                                                        get_minio_client(minio_config),
                                                        minio_config.bucket, FALSE))
    /\ adapter' = [NoAdapter EXCEPT
                      !.op = "find_rocrate_object_on_minio",
                      !.crate_id = crate_id,
                      !.root_path = root_path,
                      !.listing = rocrate_list,
                      !.result = rocrate_loop(rocrate_list, RocratePath(root_path, crate_id)),
                      !.exists = check_ro_crate_exists(objects, get_minio_client(minio_config),
                                                       minio_config.bucket, crate_id, root_path)]
    /\ UNCHANGED <<objects, broker_up, queue, next_id, pc, req, snap, calls, resp, worker, backend,
                   webhooks, runs, writes, reads, request>>


\* the loop of find_validation_object_on_minio taking the first entry of
\* the listing, whatever its name
validation_loop_firstEntry(file_list, file_path) ==
    IF file_list = <<>> THEN False ELSE Head(file_list)

\* the loop of find_validation_object_on_minio over the listing, in its
\* order: the first entry named exactly as the crate's result, False when
\* the loop ends without one
RECURSIVE validation_loop(_, _)
validation_loop(file_list, file_path) ==
    IF file_list = <<>> THEN False
    ELSE LET obj == Head(file_list)
         IN  IF obj.object_name = file_path
             THEN obj
             ELSE validation_loop(Tail(file_list), file_path)

\* find_validation_object_on_minio and check_validation_exists called for
\* a crate, the client listing the entries in the order file_list
find_validation_object_on_minio_call(minio_config, crate_id, root_path, file_list) ==
    /\ file_list \in Orderings(get_minio_object_list(objects, ValidationObjectName(root_path, crate_id),
                                                     get_minio_client(minio_config),
                                                     minio_config.bucket, FALSE))
    /\ adapter' = [NoAdapter EXCEPT
                      !.op = "find_validation_object_on_minio",
                      !.crate_id = crate_id,
                      !.root_path = root_path,
                      !.listing = file_list,
                      !.result = validation_loop(file_list, ValidationObjectName(root_path, crate_id)),
                      !.exists = check_validation_exists(objects, get_minio_client(minio_config),
                                                         minio_config.bucket, crate_id, root_path)]
    /\ UNCHANGED <<objects, broker_up, queue, next_id, pc, req, snap, calls, resp, worker, backend,
                   webhooks, runs, writes, reads, request>>

\* update_validation_status_in_minio called with a validation result
update_validation_status_in_minio_call(minio_config, crate_id, root_path, validation_status, fault) ==
    /\ LET done == update_validation_status_in_minio(objects, get_minio_client(minio_config),
                                                     minio_config.bucket, crate_id, root_path,
                                                     validation_status, fault)
       IN  /\ objects' = done.stored
           /\ adapter' = [NoAdapter EXCEPT
                             !.op = "update_validation_status_in_minio",
                             !.crate_id = crate_id,
                             !.root_path = root_path,
                             !.raised = done.raised,
                             !.given = validation_status,
                             !.stored = done.data]
    /\ UNCHANGED <<broker_up, queue, next_id, pc, req, snap, calls, resp, worker, backend,
                   webhooks, runs, writes, reads, request>>

\* --------------------------------------- validation_tasks.py, by reference
\* perform_ro_crate_validation with the engine called outside the try: what
\* the engine raises leaves the adapter
perform_ro_crate_validation_engineOutsideTry(file_path, profile_name, profiles_path, engine) ==
    IF engine = "settings_raises"
    THEN [raised |-> NoResp, is_str |-> TRUE, text |-> <<"settings error">>, engine_called |-> FALSE]
    ELSE IF engine = "raises"
    THEN [raised |-> Raised("Exception", 0, Body("", "engine error", <<>>)),
          is_str |-> TRUE, text |-> <<"engine error">>, engine_called |-> TRUE]
    ELSE [raised |-> NoResp, is_str |-> FALSE, text |-> <<engine>>, engine_called |-> TRUE]

\* perform_ro_crate_validation: the engine's result, or the message of
\* whatever building the settings or running the engine raised; raised is
\* what leaves the adapter as an exception
perform_ro_crate_validation(file_path, profile_name, profiles_path, engine) ==
    IF engine = "settings_raises"
    THEN [raised |-> NoResp, is_str |-> TRUE, text |-> <<"settings error">>, engine_called |-> FALSE]
    ELSE IF engine = "raises"
    THEN [raised |-> NoResp, is_str |-> TRUE, text |-> <<"engine error">>, engine_called |-> TRUE]
    ELSE [raised |-> NoResp, is_str |-> FALSE, text |-> <<engine>>, engine_called |-> TRUE]

\* validation_result.to_json(): the result as indented JSON text
to_json(validation_result) == <<"{", "\n">> \o validation_result.text \o <<"\n", "}">>

\* the two runs of the by-reference task the worker pool may hold at once
RunIds == {1, 2}

NoArgs == [minio_config |-> NoConfig, crate_id |-> None, root_path |-> None,
           profile_name |-> None, webhook_url |-> None, profiles_path |-> None]
NoRun == [pc |-> "none", args |-> NoArgs, file_path |-> None, files |-> {}, engine |-> "none",
          validation_result |-> [raised |-> NoResp, is_str |-> TRUE, text |-> None, engine_called |-> FALSE],
          failed_at |-> "none", error |-> NoResp, steps |-> <<>>, store_calls |-> <<>>,
          fault |-> NoFault, sent |-> <<>>, raised |-> NoResp, removed |-> "none"]

\* process_validation_task_by_id, lines 53-61: the client is made and the
\* crate is fetched
task_fetch(r, minio_config, crate_id, root_path, profile_name, webhook_url, profiles_path, fault) ==
    /\ runs[r].pc = "none"
    /\ LET minio_client == get_minio_client(minio_config)
           got == fetch_ro_crate_from_minio(objects, minio_client, minio_config.bucket,
                                            crate_id, root_path, fault)
       IN  runs' = [runs EXCEPT ![r] =
                      [NoRun EXCEPT
                         !.pc = IF got.raised = NoResp THEN "validate" ELSE "except",
                         !.args = [minio_config |-> minio_config, crate_id |-> crate_id,
                                   root_path |-> root_path, profile_name |-> profile_name,
                                   webhook_url |-> webhook_url, profiles_path |-> profiles_path],
                         !.file_path = got.path,
                         !.files = got.files,
                         !.failed_at = IF got.raised = NoResp THEN "none" ELSE "fetch",
                         !.error = got.raised,
                         !.steps = <<"fetch">>,
                         !.store_calls = got.calls,
                         !.fault = IF got.struck THEN fault ELSE NoFault]]
    /\ UNCHANGED <<objects, broker_up, queue, next_id, pc, req, snap, calls, resp, worker, backend,
                   webhooks, writes, reads, adapter, request>>

\* lines 66-73: the crate is validated; a failure string is raised as an
\* Exception
task_validate(r, engine) ==
    /\ runs[r].pc = "validate"
    /\ LET run == runs[r]
           validation_result == perform_ro_crate_validation(run.file_path, run.args.profile_name,
                                                            run.args.profiles_path, engine)
       IN  runs' = [runs EXCEPT ![r] =
                      [run EXCEPT
                         !.pc = IF validation_result.is_str THEN "except" ELSE "persist",
                         !.engine = engine,
                         !.validation_result = validation_result,
                         !.failed_at = IF validation_result.is_str THEN "validate" ELSE "none",
                         !.error = IF validation_result.is_str
                                   THEN Raised("Exception", 0,
                                               Body("", "Validation failed: ", validation_result.text))
                                   ELSE NoResp,
                         !.steps = Append(run.steps, "validate")]]
    /\ UNCHANGED <<objects, broker_up, queue, next_id, pc, req, snap, calls, resp, worker, backend,
                   webhooks, writes, reads, adapter, request>>

\* lines 81-87: the result is written to the store
task_persist(r, fault) ==
    /\ runs[r].pc = "persist"
    /\ LET run == runs[r]
           updated == update_validation_status_in_minio(
                          objects, get_minio_client(run.args.minio_config),
                          run.args.minio_config.bucket, run.args.crate_id, run.args.root_path,
                          to_json(run.validation_result), fault)
       IN  /\ objects' = updated.stored
           /\ writes' = IF updated.raised = NoResp
                        THEN Append(writes, [run |-> r, object_name |-> updated.object_name,
                                             data |-> updated.data])
                        ELSE writes
           /\ runs' = [runs EXCEPT ![r] =
                         [run EXCEPT
                            !.pc = IF updated.raised # NoResp THEN "except"
                                   ELSE IF Truthy(run.args.webhook_url) THEN "notify"
                                   ELSE "finally",
                            !.failed_at = IF updated.raised = NoResp THEN "none" ELSE "persist",
                            !.error = updated.raised,
                            !.steps = Append(run.steps, "persist"),
                            !.store_calls = run.store_calls \o updated.calls,
                            !.fault = fault]]
    /\ UNCHANGED <<broker_up, queue, next_id, pc, req, snap, calls, resp, worker, backend,
                   webhooks, reads, adapter, request>>

\* lines 91-92: the result goes to the webhook
task_notify(r, delivered) ==
    /\ runs[r].pc = "notify"
    /\ LET run == runs[r]
           sending == send_webhook_notification(
                          run.args.webhook_url,
                          [kind |-> "result", profile_name |-> None,
                           text |-> to_json(run.validation_result)],
                          delivered)
       IN  runs' = [runs EXCEPT ![r] =
                      [run EXCEPT
                         !.pc = IF sending.raised = NoResp THEN "finally" ELSE "except",
                         !.failed_at = IF sending.raised = NoResp THEN "none" ELSE "notify",
                         !.error = sending.raised,
                         !.steps = Append(run.steps, "notify"),
                         !.sent = run.sent \o sending.sent]]
    /\ UNCHANGED <<objects, broker_up, queue, next_id, pc, req, snap, calls, resp, worker, backend,
                   webhooks, writes, reads, adapter, request>>

\* the except handler, also writing the error in place of the crate's
\* result
task_except_writesError(r, delivered) ==
    /\ runs[r].pc = "except"
    /\ LET run == runs[r]
           error_data == [kind |-> "error", profile_name |-> run.args.profile_name,
                          text |-> ExceptionStr(run.error)]
           sending == send_webhook_notification(run.args.webhook_url, error_data, delivered)
       IN  /\ runs' = [runs EXCEPT ![r] =
                         [run EXCEPT
                            !.pc = "finally",
                            !.steps = Append(run.steps, "except"),
                            !.sent = IF Truthy(run.args.webhook_url)
                                     THEN run.sent \o sending.sent ELSE run.sent,
                            !.raised = IF Truthy(run.args.webhook_url)
                                       THEN sending.raised ELSE NoResp]]
           /\ objects' = put_object(objects, update_object_name(run.args.root_path, run.args.crate_id),
                                    <<"{", "error", "}">>)
    /\ UNCHANGED <<broker_up, queue, next_id, pc, req, snap, calls, resp, worker, backend,
                   webhooks, writes, reads, adapter, request>>

\* lines 94-102, the except handler: the failure payload goes to the
\* webhook if one was given; an exception of the sender leaves the task
task_except(r, delivered) ==
    /\ runs[r].pc = "except"
    /\ LET run == runs[r]
           error_data == [kind |-> "error", profile_name |-> run.args.profile_name,
                          text |-> ExceptionStr(run.error)]
           sending == send_webhook_notification(run.args.webhook_url, error_data, delivered)
       IN  runs' = [runs EXCEPT ![r] =
                      [run EXCEPT
                         !.pc = "finally",
                         !.steps = Append(run.steps, "except"),
                         !.sent = IF Truthy(run.args.webhook_url)
                                  THEN run.sent \o sending.sent ELSE run.sent,
                         !.raised = IF Truthy(run.args.webhook_url)
                                    THEN sending.raised ELSE NoResp]]
    /\ UNCHANGED <<objects, broker_up, queue, next_id, pc, req, snap, calls, resp, worker, backend,
                   webhooks, writes, reads, adapter, request>>

\* lines 104-110, the finally clause: the fetched file is removed, or the
\* fetched directory with all it holds
task_finally(r) ==
    /\ runs[r].pc = "finally"
    /\ LET run == runs[r]
           file_path == run.file_path
           cleans == Truthy(file_path) /\ os_path_exists(run.files, file_path)
       IN  runs' = [runs EXCEPT ![r] =
                      [run EXCEPT
                         !.pc = "done",
                         !.steps = Append(run.steps, "finally"),
                         !.files = IF cleans /\ os_path_isfile(run.files, file_path)
                                   THEN os_remove(run.files, file_path)
                                   ELSE IF cleans /\ os_path_isdir(run.files, file_path)
                                   THEN shutil_rmtree(run.files, file_path)
                                   ELSE run.files,
                         !.removed = IF cleans /\ os_path_isfile(run.files, file_path)
                                     THEN "os.remove"
                                     ELSE IF cleans /\ os_path_isdir(run.files, file_path)
                                     THEN "shutil.rmtree"
                                     ELSE "none"]]
    /\ UNCHANGED <<objects, broker_up, queue, next_id, pc, req, snap, calls, resp, worker, backend,
                   webhooks, writes, reads, adapter, request>>

\* a caller reads a crate's stored result through return_ro_crate_validation
validation_status_read(minio_config, crate_id, root_path, fault) ==
    /\ Len(reads) < MaxReads
    /\ LET got == read_validation_status(objects, get_minio_client(minio_config),
                                         minio_config.bucket, crate_id, root_path, fault)
       IN  reads' = Append(reads, [crate_id |-> crate_id, root_path |-> root_path, fault |-> fault,
                                   raised |-> got.raised, value |-> got.value, calls |-> got.calls,
                                   writes_before |-> Len(writes)])
    /\ UNCHANGED <<objects, broker_up, queue, next_id, pc, req, snap, calls, resp, worker, backend,
                   webhooks, runs, writes, adapter, request>>

\* ---------------------------------------------------------- environment
\* the broker becomes unreachable, or reachable again
broker_changes ==
    /\ broker_up' = ~broker_up
    /\ UNCHANGED <<objects, queue, next_id, pc, req, snap, calls, resp, worker, backend, webhooks, runs, writes, reads, adapter, request>>

\* ------------------------------------------------------- specifications
\* Spec: the by-reference submission and the result fetch, over every
\* bucket of at most MaxObjects objects
Init ==
    /\ objects \in StoreStates
    /\ broker_up \in BOOLEAN
    /\ queue = <<>>
    /\ next_id = 0
    /\ pc = "idle"
    /\ req = NoReq
    /\ snap = [objects |-> objects, broker_up |-> broker_up]
    /\ calls = <<>>
    /\ resp = NoResp
    /\ worker = IdleWorker
    /\ backend = <<>>
    /\ webhooks = <<>>
    /\ runs = [r \in RunIds |-> NoRun]
    /\ writes = <<>>
    /\ reads = <<>>
    /\ adapter = NoAdapter
    /\ request = NoRequest

Next ==
    \/ \E b \in MinioConfigs, c \in CrateIds, r \in RootPaths, p \in ProfileNames, w \in WebhookUrls :
          queue_ro_crate_validation_task(b, c, r, p, w) /\ UNCHANGED request
    \/ \E b \in MinioConfigs, c \in CrateIds, r \in RootPaths :
          get_ro_crate_validation_task(b, c, r)
    \/ broker_changes

Spec == Init /\ [][Next]_vars

\* SpecMeta: one by-metadata submission, followed from the service call to
\* the worker's return, for every crate_json of at most MaxJsonLen tokens,
\* with the broker reachable or not; the broker may already hold an earlier
\* submission
EarlierMessage ==
    Message(0, "process_validation_task_by_metadata", <<<<"{", "k:", "1", "}">>, None, None>>)

InitMeta ==
    /\ objects = <<>>
    /\ broker_up \in BOOLEAN
    /\ queue \in {<<>>, <<EarlierMessage>>}
    /\ next_id = Len(queue)
    /\ pc = "idle"
    /\ req = NoReq
    /\ snap = [objects |-> objects, broker_up |-> broker_up]
    /\ calls = <<>>
    /\ resp = NoResp
    /\ worker = IdleWorker
    /\ backend = <<>>
    /\ webhooks = <<>>
    /\ runs = [r \in RunIds |-> NoRun]
    /\ writes = <<>>
    /\ reads = <<>>
    /\ adapter = NoAdapter
    /\ request = NoRequest

NextMeta ==
    \/ /\ pc = "idle"
       /\ \E j \in JsonTexts \cup {None}, p \in ProfileNames, w \in WebhookUrls :
             queue_ro_crate_metadata_validation_task(j, p, w)
    \/ metadata_result_get
    \/ \E e \in EngineOutcomes : metadata_task_validate(e)
    \/ \E d \in BOOLEAN, de \in BOOLEAN : metadata_task_return(d, de)

SpecMeta == InitMeta /\ [][NextMeta]_vars

\* SpecTask: two runs of the by-reference task, concurrent, each with its
\* own arguments, over a bucket that holds a zipped crate and its earlier
\* result at the top, or a directory crate under "base"
TaskRootPaths == {<<>>, <<"base">>}
TaskCrateIds == {<<"c1">>}
TaskProfileNames == {<<"default">>}
TaskWebhookUrls == {None, <<"http://webhook">>}
FetchOps == {"list_objects", "list_objects_recursive", "fget_object"}
PersistOps == {"put_object"}
ReadOps == {"get_object"}

ZippedWithResult ==
    (ZipName(None, <<"c1">>) :> <<"bytes">>)
        @@ (ValidationObjectName(None, <<"c1">>) :> <<"{", "issues", "}">>)
DirectoryOnly == (DirMemberName(<<"base">>, <<"c1">>) :> <<"bytes">>)
TaskStores == {ZippedWithResult, DirectoryOnly}

InitTask ==
    /\ objects \in TaskStores
    /\ broker_up = TRUE
    /\ queue = <<>>
    /\ next_id = 0
    /\ pc = "idle"
    /\ req = NoReq
    /\ snap = [objects |-> objects, broker_up |-> broker_up]
    /\ calls = <<>>
    /\ resp = NoResp
    /\ worker = IdleWorker
    /\ backend = <<>>
    /\ webhooks = <<>>
    /\ runs = [r \in RunIds |-> NoRun]
    /\ writes = <<>>
    /\ reads = <<>>
    /\ adapter = NoAdapter
    /\ request = NoRequest

\* one step of run r, its store calls failing for any of causes
TaskStep(r, causes) ==
    \/ \E b \in MinioConfigs, c \in TaskCrateIds, rp \in TaskRootPaths, p \in TaskProfileNames,
          w \in TaskWebhookUrls, f \in Faults(FetchOps, causes) :
          task_fetch(r, b, c, rp, p, w, None, f)
    \/ \E e \in EngineOutcomes : task_validate(r, e)
    \/ \E f \in Faults(PersistOps, causes) : task_persist(r, f)
    \/ \E d \in BOOLEAN : task_notify(r, d)
    \/ \E d \in BOOLEAN : task_except(r, d)
    \/ task_finally(r)

NextTask == \E r \in RunIds : TaskStep(r, {"S3Error"})

SpecTask == InitTask /\ [][NextTask]_vars

\* SpecFlow: one run of the by-reference task next to the fetches and the
\* reads of the stored result that callers make while it runs
NextFlow ==
    \/ TaskStep(1, ErrorCauses)
    \/ \E b \in MinioConfigs, c \in TaskCrateIds, rp \in RootPaths :
          get_ro_crate_validation_task(b, c, rp)
    \/ \E b \in MinioConfigs, c \in TaskCrateIds, rp \in RootPaths, f \in Faults(ReadOps, ErrorCauses) :
          validation_status_read(b, c, rp, f)

SpecFlow == InitTask /\ [][NextFlow]_vars

\* SpecStore: the store adapter's lookups and its write of a result, called
\* directly over every bucket of at most MaxObjects objects; a result is
\* written for crate "c1" as compact, one-line or indented JSON text, the
\* store accepting it
StatusTexts ==
    {<<"{", "k:", "1", "}">>,
     <<"{", "k:", " ", "1", "}">>,
     <<"{", "\n", " ", "k:", " ", "1", "\n", "}">>,
     <<"{", "\n", " ", "k:", " ", "s", "\n", "}">>}

\* a bucket that holds, next to or instead of the result of crate "c1", an
\* object whose name goes on after the result's name
SiblingName == ValidationObjectName(None, <<"c1">>) \o <<".bak">>
SiblingStores ==
    {(SiblingName :> <<"bytes">>),
     (SiblingName :> <<"bytes">>) @@ (ValidationObjectName(None, <<"c1">>) :> <<"passed">>)}

InitStore ==
    /\ objects \in StoreStates \cup SiblingStores
    /\ broker_up = TRUE
    /\ queue = <<>>
    /\ next_id = 0
    /\ pc = "idle"
    /\ req = NoReq
    /\ snap = [objects |-> objects, broker_up |-> broker_up]
    /\ calls = <<>>
    /\ resp = NoResp
    /\ worker = IdleWorker
    /\ backend = <<>>
    /\ webhooks = <<>>
    /\ runs = [r \in RunIds |-> NoRun]
    /\ writes = <<>>
    /\ reads = <<>>
    /\ adapter = NoAdapter
    /\ request = NoRequest

NextStore ==
    \/ \E b \in MinioConfigs, c \in CrateIds, rp \in RootPaths \cup {<<>>} :
          \E l \in Orderings(get_minio_object_list(objects, RocratePath(rp, c), get_minio_client(b),
                                                   b.bucket, FALSE)) :
              find_rocrate_object_on_minio_call(b, c, rp, l)
    \/ \E b \in MinioConfigs, c \in CrateIds, rp \in RootPaths \cup {<<>>} :
          \E l \in Orderings(get_minio_object_list(objects, ValidationObjectName(rp, c),
                                                   get_minio_client(b), b.bucket, FALSE)) :
              find_validation_object_on_minio_call(b, c, rp, l)
    \/ \E b \in MinioConfigs, c \in TaskCrateIds, rp \in TaskRootPaths, v \in StatusTexts :
          update_validation_status_in_minio_call(b, c, rp, v, NoFault)

SpecStore == InitStore /\ [][NextStore]_vars

\* SpecRoutes: the handlers of POST /validate_by_id and of
\* POST /validate_by_id_no_webhook, given every request body the input
\* decorator lets through, over every bucket of at most MaxObjects objects
NextRoutes ==
    \/ \E j \in JsonBodies : validate_ro_crate_from_id(j)
    \/ \E j \in JsonBodies : validate_ro_crate_from_id_no_webhook(j)
    \/ broker_changes

SpecRoutes == Init /\ [][NextRoutes]_vars

\* SpecGap: a by-reference submission, the crate's removal from the bucket
\* by another client of the store, and one run of the by-reference task
\* whose fetch comes after the removal
\* another client removes the crate's objects (its zip, or the members of
\* its directory) before the worker's fetch; results stay
crate_removed(crate_id, root_path) ==
    /\ \A r \in RunIds : runs[r].pc = "none"
    /\ LET gone == {n \in DOMAIN objects :
                       \/ n = ZipName(root_path, crate_id)
                       \/ IsPrefix(RocratePath(root_path, crate_id) \o Slash, n)}
       IN  /\ gone # {}
           /\ objects' = [n \in DOMAIN objects \ gone |-> objects[n]]
    /\ UNCHANGED <<broker_up, queue, next_id, pc, req, snap, calls, resp, worker, backend,
                   webhooks, runs, writes, reads, adapter, request>>

NextGap ==
    \/ \E b \in MinioConfigs, c \in TaskCrateIds, r \in TaskRootPaths, p \in TaskProfileNames,
          w \in TaskWebhookUrls :
          queue_ro_crate_validation_task(b, c, r, p, w) /\ UNCHANGED request
    \/ \E c \in TaskCrateIds, r \in TaskRootPaths : crate_removed(c, r)
    \/ TaskStep(1, {})

SpecGap == InitTask /\ [][NextGap]_vars

\* ------------------------------------------------------------ properties
ById == "queue_ro_crate_validation_task"
ByMetadata == "queue_ro_crate_metadata_validation_task"
Fetch == "get_ro_crate_validation_task"
ByIdDelay == "process_validation_task_by_id.delay"
ByMetadataDelay == "process_validation_task_by_metadata.delay"

Done(op) == pc = "done" /\ req.op = op

\* whether the crate, and its result, were in the bucket the request names
\* when the call was made: the existence checks applied to the client made
\* from the request's store config and to its bucket
CrateFound ==
    check_ro_crate_exists(snap.objects, get_minio_client(req.minio_bucket),
                          req.minio_bucket.bucket, req.crate_id, req.root_path)
ResultFound ==
    check_validation_exists(snap.objects, get_minio_client(req.minio_bucket),
                            req.minio_bucket.bucket, req.crate_id, req.root_path)
StoredResult ==
    return_ro_crate_validation(snap.objects, get_minio_client(req.minio_bucket),
                               req.minio_bucket.bucket, req.crate_id, req.root_path)

\* the messages of id i that are on the broker, with the worker or answered
Enqueued(i) ==
    \/ \E k \in 1..Len(queue) : queue[k].id = i
    \/ worker.id = i
    \/ i \in DOMAIN backend

NoCrateResponse ==
    Raised("InvalidAPIUsage", 400, Body("message", "No RO-Crate with prefix: ", req.crate_id))
InProgressResponse == Returned(202, Body("message", "Validation in progress", None))

\* C1: a by-reference submission whose crate is not in the bucket fails with
\* InvalidAPIUsage, status 400, "No RO-Crate with prefix: <crate_id>", and
\* enqueues nothing.
C1_ById_NoCrate_Fails400 ==
    (Done(ById) /\ ~CrateFound) =>
        /\ resp = NoCrateResponse
        /\ CallsTo(calls, ByIdDelay) = {}
        /\ queue = <<>>

\* C2: a by-reference submission whose crate exists, made while the broker
\* accepts messages, enqueues exactly one by-reference task and returns 202
\* "Validation in progress" while that task is still on the queue.
C2_ById_Accepted202 ==
    (Done(ById) /\ CrateFound /\ snap.broker_up) =>
        /\ resp = InProgressResponse
        /\ Cardinality(CallsTo(calls, ByIdDelay)) = 1
        /\ Len(queue) = 1
        /\ queue[1].task = "process_validation_task_by_id"

\* C3: a by-reference submission makes a store client from the request's
\* store config exactly once, gives the existence check (client, bucket,
\* crate_id, root_path), and enqueues (minio_config, crate_id, root_path,
\* profile_name, webhook_url, profiles_path).
C3_ById_Arguments ==
    Done(ById) =>
        /\ Cardinality(CallsTo(calls, "get_minio_client")) = 1
        /\ \A i \in CallsTo(calls, "check_ro_crate_exists") :
              /\ Len(calls[i].args) = 4
              /\ calls[i].args[1] = get_minio_client(req.minio_bucket)
              /\ calls[i].args[2] = req.minio_bucket.bucket
              /\ calls[i].args[3] = req.crate_id
              /\ calls[i].args[4] = req.root_path
        /\ \A i \in CallsTo(calls, ByIdDelay) :
              /\ Len(calls[i].args) = 6
              /\ calls[i].args[1] = req.minio_bucket
              /\ SubSeq(calls[i].args, 2, 5) =
                    <<req.crate_id, req.root_path, req.profile_name, req.webhook_url>>

\* C4: a submission (by reference for a crate that exists, by metadata for
\* an accepted document) made while the broker is unreachable returns 500
\* with the broker's error as body; nothing is raised to the caller and
\* enqueueing is attempted exactly once.
C4_EnqueueFailure500 ==
    (/\ pc = "done"
     /\ ~snap.broker_up
     /\ \/ req.op = ById /\ CrateFound
        \/ req.op = ByMetadata /\ Truthy(req.crate_json)
             /\ ~json_loads(req.crate_json).raised /\ json_loads(req.crate_json).type = "dict"
             /\ json_loads(req.crate_json).len > 0) =>
        /\ resp = Returned(500, Body("error", "", <<"broker unreachable">>))
        /\ Cardinality(CallsTo(calls, ByIdDelay) \cup CallsTo(calls, ByMetadataDelay)) = 1

\* C5: a fetch whose crate is not in the bucket fails with status 400,
\* "No RO-Crate with prefix: <crate_id>", without checking for or reading
\* the result, whether or not a result object is stored for that id.
C5_Fetch_NoCrate_Fails400 ==
    (Done(Fetch) /\ ~CrateFound) =>
        /\ resp = NoCrateResponse
        /\ CallsTo(calls, "check_validation_exists") = {}
        /\ CallsTo(calls, "return_ro_crate_validation") = {}

\* C6: a fetch whose crate exists but has no stored result fails with
\* status 400, "No validation result yet for RO-Crate: <crate_id>", and
\* never reads the result.
C6_Fetch_NoResult_Fails400 ==
    (Done(Fetch) /\ CrateFound /\ ~ResultFound) =>
        /\ resp = Raised("InvalidAPIUsage", 400,
                         Body("message", "No validation result yet for RO-Crate: ", req.crate_id))
        /\ CallsTo(calls, "return_ro_crate_validation") = {}

\* C7: a fetch whose crate and result both exist returns 200 with the
\* stored result, after the crate check, the result check and the read, in
\* that order, once each.
C7_Fetch_Returns200 ==
    (Done(Fetch) /\ CrateFound /\ ResultFound) =>
        /\ resp = Returned(200, Body("stored", "", StoredResult))
        /\ CallFns(calls) = <<"check_ro_crate_exists", "check_validation_exists",
                              "return_ro_crate_validation">>

\* the crate_json of the request is a non-empty top-level JSON object
IsNonEmptyObject(crate_json) ==
    /\ Truthy(crate_json)
    /\ ~json_loads(crate_json).raised
    /\ json_loads(crate_json).type = "dict"
    /\ json_loads(crate_json).len > 0

Error422(text, arg) == Returned(422, Body("error", text, arg))

\* C8: by-metadata submission: a missing or empty crate_json gives 422
\* "Missing required parameter" before any parsing (so the empty text, which
\* is not valid JSON either, is reported missing); "{" gives 422 "not valid
\* JSON" after json.loads and before the emptiness check; "{}" gives 422
\* "Required parameter crate_json is empty" after both; none of the three
\* enqueues a task.
C8_Metadata_InputErrors ==
    Done(ByMetadata) =>
        /\ ~Truthy(req.crate_json) =>
              /\ resp = Error422("Missing required parameter: crate_json", None)
              /\ calls = <<>>
              /\ ~Enqueued(req.task_id)
        /\ req.crate_json = <<"{">> =>
              /\ resp = Error422("Required parameter crate_json is not valid JSON: ", <<"JSONDecodeError">>)
              /\ CallFns(calls) = <<"json.loads">>
              /\ ~Enqueued(req.task_id)
        /\ req.crate_json = <<"{", "}">> =>
              /\ resp = Error422("Required parameter crate_json is empty", None)
              /\ CallFns(calls) = <<"json.loads", "len">>
              /\ ~Enqueued(req.task_id)

C8_Witness ==
    /\ Done(ByMetadata)
    /\ req.crate_json = <<"{", "}">>
    /\ resp = Error422("Required parameter crate_json is empty", None)

\* C9: a by-metadata submission enqueues its task only when crate_json is a
\* non-empty top-level JSON object; for every other crate_json it returns
\* status 422 and enqueues nothing.
C9_Metadata_OnlyObjectsEnqueued ==
    (req.op = ByMetadata /\ pc # "idle") =>
        /\ (CallsTo(calls, ByMetadataDelay) # {} \/ Enqueued(req.task_id)) =>
              IsNonEmptyObject(req.crate_json)
        /\ ~IsNonEmptyObject(req.crate_json) =>
              resp.kind = "returned" /\ resp.status = 422

\* C10: a by-metadata submission of a non-empty JSON object, made while the
\* broker accepts messages, enqueues exactly one task with the arguments
\* (crate_json, profile_name, webhook_url); with a webhook URL it returns
\* 202 "Validation in progress" and never reads the task's result; without
\* one it has no response until the task has returned, and then returns 200
\* with the task's return value as "result".
C10_Metadata_WebhookOrBlocking ==
    (req.op = ByMetadata /\ pc # "idle" /\ IsNonEmptyObject(req.crate_json) /\ snap.broker_up) =>
        /\ Cardinality(CallsTo(calls, ByMetadataDelay)) = 1
        /\ \A i \in CallsTo(calls, ByMetadataDelay) :
              calls[i].args = <<req.crate_json, req.profile_name, req.webhook_url>>
        /\ Enqueued(req.task_id)
        /\ \A k \in 1..Len(queue) :
              queue[k].id = req.task_id =>
                  /\ queue[k].task = "process_validation_task_by_metadata"
                  /\ queue[k].args = <<req.crate_json, req.profile_name, req.webhook_url>>
                  /\ \A l \in 1..Len(queue) : queue[l].id = req.task_id => l = k
        /\ worker.id = req.task_id =>
              worker.args = <<req.crate_json, req.profile_name, req.webhook_url>>
        /\ Truthy(req.webhook_url) =>
              /\ pc = "done"
              /\ resp = InProgressResponse
              /\ CallsTo(calls, "result.get") = {}
        /\ ~Truthy(req.webhook_url) =>
              /\ req.task_id \notin DOMAIN backend => (pc = "meta_wait" /\ resp = NoResp)
              /\ pc = "done" =>
                    /\ req.task_id \in DOMAIN backend
                    /\ resp = Returned(200, Body("result", "", backend[req.task_id]))
                    /\ Cardinality(CallsTo(calls, "result.get")) = 1

C10_Witness ==
    /\ Done(ByMetadata)
    /\ IsNonEmptyObject(req.crate_json)
    /\ ~Truthy(req.webhook_url)
    /\ resp.status = 200
    /\ req.task_id \in DOMAIN backend

\* ------------------------------------------------- the by-reference task
\* the writes of run r, as positions of the write history
WritesOf(r) == {i \in 1..Len(writes) : writes[i].run = r}

\* the result path the contract gives a crate
ExpectedResultPath(root_path, crate_id) ==
    IF root_path \in {None, <<>>}
    THEN crate_id \o <<"_validation", "/", "validation_status.txt">>
    ELSE root_path \o <<"/">> \o crate_id \o <<"_validation", "/", "validation_status.txt">>

\* C11: after a by-reference task for an existing crate has completed and
\* stored its result, a GET for the same (bucket, root path, crate id)
\* returns 200 with the stored validation result.
C11_EndToEnd_FetchAfterTask ==
    (/\ Done(Fetch)
     /\ CrateFound
     /\ ResultFound
     /\ \E i \in 1..Len(writes) :
           /\ writes[i].object_name = ExpectedResultPath(req.root_path, req.crate_id)
           /\ runs[writes[i].run].args.minio_config = req.minio_bucket
           /\ StoredResult = writes[i].data)
    => resp = Returned(200, Body("stored", "", StoredResult))

\* two reads of the same crate's result, one right after the other, with
\* the store answering both
SuccessiveReads(i) ==
    /\ i \in 1..(Len(reads) - 1)
    /\ reads[i].crate_id = reads[i + 1].crate_id
    /\ reads[i].root_path = reads[i + 1].root_path
    /\ reads[i].fault = NoFault
    /\ reads[i + 1].fault = NoFault

SameOutcome(i) ==
    /\ reads[i].raised = reads[i + 1].raised
    /\ reads[i].value = reads[i + 1].value

\* whether a run has written the crate's result between read i and the next
WrittenBetween(i) ==
    \E k \in (reads[i].writes_before + 1)..reads[i + 1].writes_before :
        writes[k].object_name = ExpectedResultPath(reads[i].root_path, reads[i].crate_id)

ResultObjectsOf(root_path, crate_id) ==
    {n \in DOMAIN objects :
        IsPrefix(RocratePath(root_path, crate_id) \o <<"_validation", "/">>, n)}

\* the writes to an object that no later write to that object follows
LastWrites ==
    {i \in 1..Len(writes) :
        \A k \in (i + 1)..Len(writes) : writes[k].object_name # writes[i].object_name}

\* C13: runs of the by-reference task never wait for each other; the
\* result object of a crate holds what the run that persisted last wrote,
\* which is that run's own result; a crate has at most one result object.
C13_LastWriterWins ==
    /\ \A r \in RunIds : runs[r].pc \notin {"none", "done"} => ENABLED TaskStep(r, {"S3Error"})
    /\ \A i \in LastWrites :
          /\ writes[i].object_name \in DOMAIN objects
          /\ objects[writes[i].object_name] = writes[i].data
          /\ writes[i].data = <<"{">> \o runs[writes[i].run].validation_result.text \o <<"}">>
    /\ \A rp \in TaskRootPaths, c \in TaskCrateIds :
          Cardinality(ResultObjectsOf(rp, c)) <= 1

\* both runs have persisted different results for the same crate, one after
\* the other, over an earlier result
C13_Witness ==
    /\ Len(writes) = 2
    /\ writes[1].run # writes[2].run
    /\ writes[1].object_name = writes[2].object_name
    /\ writes[1].data # writes[2].data
    /\ objects[writes[2].object_name] = writes[2].data
    /\ \A r \in RunIds : runs[r].pc = "done"

\* C14: the path written by update_validation_status_in_minio, the path
\* read by get_validation_status_from_minio and the path looked up by
\* find_validation_object_on_minio are one string, with the root path in
\* front when it is non-empty and without it when it is None or empty; a
\* result a run has written is found and read under that path.
C14_ResultPath ==
    /\ \A rp \in TaskRootPaths \cup RootPaths, c \in CrateIds :
          /\ update_object_name(rp, c) = ExpectedResultPath(rp, c)
          /\ get_object_name(rp, c) = ExpectedResultPath(rp, c)
          /\ ValidationObjectName(rp, c) = ExpectedResultPath(rp, c)
    /\ \A i \in LastWrites :
          LET a == runs[writes[i].run].args
          IN  /\ writes[i].object_name = ExpectedResultPath(a.root_path, a.crate_id)
              /\ check_validation_exists(objects, get_minio_client(a.minio_config),
                                         a.minio_config.bucket, a.crate_id, a.root_path)
              /\ get_validation_status_from_minio(objects, get_minio_client(a.minio_config),
                                                  a.minio_config.bucket, a.crate_id, a.root_path)
                     = writes[i].data

\* a run given the empty string as its root path has written its result
C14_Witness ==
    \E i \in 1..Len(writes) :
        /\ runs[writes[i].run].args.root_path = <<>>
        /\ writes[i].object_name = <<"c1", "_validation", "/", "validation_status.txt">>

\* a run that has ended with no step of it having failed
Succeeded(r) == runs[r].pc = "done" /\ runs[r].failed_at = "none"

\* the JSON value a text holds: the text without its white space
NotWhiteSpace(token) == token \notin {"\n", " "}
JsonValue(text) == SelectSeq(text, NotWhiteSpace)

ResultPayloads(r) == {k \in 1..Len(runs[r].sent) : runs[r].sent[k].payload.kind = "result"}
ErrorPayloads(r) == {k \in 1..Len(runs[r].sent) : runs[r].sent[k].payload.kind = "error"}

\* C15: a run that succeeds takes its steps in the order fetch, validate,
\* persist, notify; it writes its result once, under the crate's result
\* path, before any delivery to the webhook; the payload delivered to a
\* given webhook is the JSON that was persisted.
C15_SuccessPath ==
    /\ \A r \in RunIds : ResultPayloads(r) # {} => WritesOf(r) # {}
    /\ \A r \in RunIds : Succeeded(r) =>
          LET run == runs[r]
          IN  /\ run.steps = IF Truthy(run.args.webhook_url)
                             THEN <<"fetch", "validate", "persist", "notify", "finally">>
                             ELSE <<"fetch", "validate", "persist", "finally">>
              /\ Cardinality(WritesOf(r)) = 1
              /\ \A i \in WritesOf(r) :
                    /\ writes[i].object_name
                           = ExpectedResultPath(run.args.root_path, run.args.crate_id)
                    /\ Truthy(run.args.webhook_url) =>
                          /\ Len(run.sent) = 1
                          /\ run.sent[1].url = run.args.webhook_url
                          /\ run.sent[1].payload.kind = "result"
                          /\ JsonValue(run.sent[1].payload.text) = JsonValue(writes[i].data)
                          /\ JsonValue(writes[i].data) = <<"{">> \o run.validation_result.text \o <<"}">>
              /\ ~Truthy(run.args.webhook_url) => run.sent = <<>>

\* a run given a webhook has succeeded on a directory crate
C15_Witness ==
    \E r \in RunIds :
        /\ Succeeded(r)
        /\ Truthy(runs[r].args.webhook_url)
        /\ runs[r].args.root_path = <<"base">>
        /\ Len(runs[r].sent) = 1
        /\ WritesOf(r) # {}

\* C16: a run that fails at its fetch, validate or persist step persists no
\* result and, given a webhook, delivers {profile_name, error} with an
\* error message that holds the cause; no run both persists a result and
\* delivers a failure payload.
C16_FailurePath ==
    /\ \A r \in RunIds :
          (runs[r].pc = "done" /\ runs[r].failed_at \in {"fetch", "validate", "persist"}) =>
              LET run == runs[r]
              IN  /\ WritesOf(r) = {}
                  /\ (Truthy(run.args.webhook_url) /\ run.raised = NoResp) =>
                        /\ Len(run.sent) = 1
                        /\ run.sent[1].url = run.args.webhook_url
                        /\ run.sent[1].payload.kind = "error"
                        /\ run.sent[1].payload.profile_name = run.args.profile_name
                        /\ \E k \in 1..Len(run.sent[1].payload.text) :
                              run.sent[1].payload.text[k] = run.error.body.text
                  /\ ~Truthy(run.args.webhook_url) => run.sent = <<>>
    /\ \A r \in RunIds : ~(WritesOf(r) # {} /\ ErrorPayloads(r) # {})

\* C17: when a run has ended, however it ended, none of the files and
\* directories it created is left; a fetched file is removed by os.remove
\* and a fetched directory by shutil.rmtree.
C17_Cleanup ==
    \A r \in RunIds : runs[r].pc = "done" =>
        /\ runs[r].files = {}
        /\ runs[r].removed = "os.remove" => runs[r].file_path # TempDir \o Slash
        /\ runs[r].removed = "shutil.rmtree" => runs[r].file_path = TempDir \o Slash

AdapterTotal(validation_result, engine, result_text) ==
    /\ validation_result.raised = NoResp
    /\ engine = "settings_raises" =>
          /\ validation_result.is_str
          /\ validation_result.text = <<"settings error">>
          /\ ~validation_result.engine_called
    /\ engine = "raises" =>
          /\ validation_result.is_str
          /\ validation_result.text = <<"engine error">>
    /\ engine \in {"passed", "issues"} =>
          /\ ~validation_result.is_str
          /\ validation_result.text = result_text
          /\ validation_result.engine_called

TaggedError(cause) ==
    Raised("InvalidAPIUsage", 500,
           Body("message",
                CASE cause = "S3Error" -> "MinIO S3 Error: "
                  [] cause = "ValueError" -> "Configuration Error: "
                  [] OTHER -> "Unknown Error: ",
                <<cause>>))

TimesCalled(store_calls, op) == Cardinality({k \in 1..Len(store_calls) : store_calls[k] = op})

\* C20: a store operation that fails (list, download, write of a result,
\* read of a result) raises InvalidAPIUsage with status 500 and the message
\* tag of its cause, and is not called again.
C20_StoreErrors ==
    /\ \A r \in RunIds : runs[r].fault # NoFault =>
          /\ runs[r].error = TaggedError(runs[r].fault.cause)
          /\ runs[r].failed_at \in {"fetch", "persist"}
          /\ TimesCalled(runs[r].store_calls, runs[r].fault.op) = 1
          /\ runs[r].store_calls[Len(runs[r].store_calls)] = runs[r].fault.op
    /\ \A i \in 1..Len(reads) :
          /\ reads[i].fault # NoFault => reads[i].raised = TaggedError(reads[i].fault.cause)
          /\ reads[i].calls = <<"get_object">>

\* a read of a result has failed for a ValueError, and a download or a write
\* of a run for another exception
C20_Witness ==
    /\ \E i \in 1..Len(reads) : reads[i].fault.cause = "ValueError"
    /\ \E r \in RunIds :
          /\ runs[r].fault.op \in {"fget_object", "put_object"}
          /\ runs[r].fault.cause = "Exception"
          /\ runs[r].pc = "done"

\* ------------------------------------------- the store adapter's lookups
\* the path the contract gives a crate
ExpectedCratePath(root_path, crate_id) ==
    IF root_path \in {None, <<>>} THEN crate_id ELSE root_path \o <<"/">> \o crate_id

\* a listing entry that is the crate in zip form or in directory form
IsCrateEntry(obj, p) ==
    \/ obj.object_name = p \o <<".zip">>
    \/ (obj.object_name = p \o <<"/">> /\ obj.is_dir)

\* the first position of a listing that satisfies Hit, 0 if none does
FirstHit(listing, Hit(_)) ==
    IF \E i \in 1..Len(listing) : Hit(listing[i])
    THEN CHOOSE i \in 1..Len(listing) :
             Hit(listing[i]) /\ \A k \in 1..(i - 1) : ~Hit(listing[k])
    ELSE 0

\* C21: find_rocrate_object_on_minio returns the first listed entry that is
\* exactly "p.zip" or exactly "p/" with the directory flag, and False when
\* the listing has neither; a crate stored as a zip and a crate stored as a
\* directory both resolve; objects of other crates and of other root paths
\* never make the lookup succeed.
C21_ResolveCrate ==
    adapter.op = "find_rocrate_object_on_minio" =>
        LET p == ExpectedCratePath(adapter.root_path, adapter.crate_id)
            Hit(obj) == IsCrateEntry(obj, p)
            first == FirstHit(adapter.listing, Hit)
            zipped == (p \o <<".zip">>) \in DOMAIN objects
            directory == \E n \in DOMAIN objects : IsPrefix(p \o <<"/">>, n)
        IN  /\ first = 0 => adapter.result = False
            /\ first # 0 => adapter.result = adapter.listing[first]
            /\ (adapter.result # False) <=> (zipped \/ directory)

\* the lookup of crate "c1" has returned False on a bucket that holds
\* objects of crate "c10" and the result of "c1"
C21_Witness ==
    /\ adapter.op = "find_rocrate_object_on_minio"
    /\ adapter.crate_id = <<"c1">>
    /\ Len(adapter.listing) = 2
    /\ adapter.result = False

\* C26: find_validation_object_on_minio returns an object only when the
\* listing holds an entry named exactly as the crate's result path, and
\* False for an empty listing and for a listing of other names;
\* check_validation_exists and check_ro_crate_exists are True exactly when
\* the lookup found an object, False otherwise.
C26_ResolveResult ==
    /\ adapter.op = "find_validation_object_on_minio" =>
          LET path == ExpectedResultPath(adapter.root_path, adapter.crate_id)
              Hit(obj) == obj.object_name = path
              first == FirstHit(adapter.listing, Hit)
          IN  /\ first = 0 => adapter.result = False
              /\ first # 0 => adapter.result = adapter.listing[first]
              /\ adapter.result # False => adapter.result.object_name = path
              /\ (adapter.result # False) <=> path \in DOMAIN objects
    /\ adapter.op \in {"find_validation_object_on_minio", "find_rocrate_object_on_minio"} =>
          /\ adapter.exists \in BOOLEAN
          /\ adapter.exists <=> adapter.result # False

\* the lookup of a result has returned False on a listing that holds only
\* another name
C26_Witness ==
    /\ adapter.op = "find_validation_object_on_minio"
    /\ adapter.listing # <<>>
    /\ adapter.result = False
    /\ ~adapter.exists

\* C27: after update_validation_status_in_minio has succeeded for a valid
\* JSON text v, the lookup of the crate's result finds the object and
\* get_validation_status_from_minio returns the JSON value of v; the object
\* holds the JSON of v serialised again without indentation, so every text
\* of the same JSON value stores the same bytes.
C27_RoundTrip ==
    (adapter.op = "update_validation_status_in_minio" /\ adapter.raised = NoResp) =>
        LET path == ExpectedResultPath(adapter.root_path, adapter.crate_id)
            client == get_minio_client(CHOOSE b \in MinioConfigs : TRUE)
        IN  /\ path \in DOMAIN objects
            /\ check_validation_exists(objects, client, TheBucket, adapter.crate_id, adapter.root_path)
            /\ \A l \in Orderings(get_minio_object_list(objects, path, client, TheBucket, FALSE)) :
                  validation_loop(l, path) = [object_name |-> path, is_dir |-> FALSE]
            /\ get_validation_status_from_minio(objects, client, TheBucket, adapter.crate_id,
                                                adapter.root_path) = JsonValue(adapter.given)
            /\ objects[path] = adapter.stored
            /\ \A k \in 1..Len(objects[path]) : objects[path][k] # "\n"
            /\ \A t \in StatusTexts :
                  JsonValue(t) = JsonValue(adapter.given) => json_dumps_loads(t) = objects[path]

\* an indented result has been written over an object that holds another
\* name's sibling, and what is stored is not the text that was given
C27_Witness ==
    /\ adapter.op = "update_validation_status_in_minio"
    /\ adapter.raised = NoResp
    /\ \E k \in 1..Len(adapter.given) : adapter.given[k] = "\n"
    /\ adapter.stored # adapter.given
    /\ SiblingName \in DOMAIN objects

\* ------------------------------------------------------ the legacy routes
\* C22: POST /validate_by_id answers a body without crate_id, or without
\* webhook_url, with status 400 and "Missing required parameter: '<key>'",
\* and queues nothing; a body without profile_name is no error, and None is
\* what the service function is given for it.
C22_LegacyRoute_MissingKeys ==
    (pc = "done" /\ request.route = "validate_by_id") =>
        LET j == request.json_data
        IN  /\ j.crate_id = Missing =>
                  /\ resp.status = 400
                  /\ resp.body.text = "Missing required parameter: 'crate_id'"
                  /\ queue = <<>>
            /\ (j.crate_id # Missing /\ j.webhook_url = Missing) =>
                  /\ resp.status = 400
                  /\ resp.body.text = "Missing required parameter: 'webhook_url'"
                  /\ queue = <<>>
            /\ (j.crate_id # Missing /\ j.webhook_url # Missing /\ j.profile_name = Missing) =>
                  /\ calls # <<>>
                  /\ calls[1].args = <<j.crate_id, None, j.webhook_url>>
                  /\ resp.exc \notin {"KeyError", "TypeError"}

\* ------------------------------------------------- the by-metadata task
\* the payloads the by-metadata task hands to the sender
ResultPayload == [kind |-> "result", profile_name |-> None, text |-> worker.validation_result.text]
FailurePayload ==
    [kind |-> "error", profile_name |-> worker.args[2],
     text |-> <<"Validation failed: ">> \o worker.validation_result.text]

\* C23: a by-metadata task given a webhook URL hands the result JSON to the
\* sender for that URL when the validation gave a result, and a payload with
\* an "error" field (the failure reason) when the engine failed; given no
\* webhook URL it never invokes the sender, on either path; nothing reaches
\* a webhook that the task did not hand to the sender.
C23_MetadataTask_Webhook ==
    worker.exit # NoExit =>
        LET webhook_url == worker.args[3]
            invoked == worker.exit.invoked
        IN  /\ (Truthy(webhook_url) /\ ~worker.validation_result.is_str) =>
                  /\ invoked # <<>>
                  /\ invoked[1] = [url |-> webhook_url, payload |-> ResultPayload]
            /\ (Truthy(webhook_url) /\ worker.validation_result.is_str) =>
                  invoked = <<[url |-> webhook_url, payload |-> FailurePayload]>>
            /\ ~Truthy(webhook_url) => invoked = <<>>
            /\ \A i \in 1..Len(webhooks) : \E k \in 1..Len(invoked) : webhooks[i] = invoked[k]

\* the engine failed on a document submitted with a webhook URL, and the
\* failure payload has reached the webhook
C23_Witness ==
    /\ worker.exit # NoExit
    /\ worker.engine = "raises"
    /\ Truthy(worker.args[3])
    /\ webhooks = <<[url |-> worker.args[3], payload |-> FailurePayload]>>

\* C24: every invocation of the validation engine made by the by-metadata
\* task is in metadata-only mode and carries a skip_checks entry, whatever
\* the profile name and the webhook URL.
C24_MetadataOnly_SkipChecks ==
    (worker.state = "validated" /\ worker.validation_result.engine_called) =>
        /\ worker.validation_result.settings.metadata_only
        /\ worker.validation_result.settings.skip_checks # Absent

\* ------------------------------------------- notifications of one run
\* how often run r has invoked the sender: the notify step is one
\* invocation, the except handler is one when the run has a webhook URL
RECURSIVE SenderInvocations(_, _)
SenderInvocations(steps, webhook_url) ==
    IF steps = <<>> THEN 0
    ELSE SenderInvocations(Tail(steps), webhook_url)
            + (IF Head(steps) = "notify" \/ (Head(steps) = "except" /\ Truthy(webhook_url))
               THEN 1 ELSE 0)

\* C25: a finished run of the by-reference task that was given a webhook
\* URL has invoked the sender exactly once, and one given no webhook URL has
\* never invoked it, whichever step failed, the delivery included.
C25_NotifyOnce ==
    \A r \in RunIds :
        runs[r].pc = "done" =>
            SenderInvocations(runs[r].steps, runs[r].args.webhook_url)
                = (IF Truthy(runs[r].args.webhook_url) THEN 1 ELSE 0)

\* ------------------------------------------ the synchronous metadata path
\* the message of what the engine or the building of its settings raised
FailureReason(engine) ==
    IF engine = "raises" THEN <<"engine error">> ELSE <<"settings error">>

PersistStep(r) ==
    /\ runs[r].pc = "persist"
    /\ runs'[r].steps = Append(runs[r].steps, "persist")

\* the names whose object the step has written, replaced or removed
Touched ==
    {n \in DOMAIN objects \cup DOMAIN objects' :
        \/ n \notin DOMAIN objects
        \/ n \notin DOMAIN objects'
        \/ objects'[n] # objects[n]}

\* only a persist step changes the store, removing nothing and touching
\* only the result object of the crate its run was given
StoreFrame ==
    objects' # objects =>
        /\ DOMAIN objects \subseteq DOMAIN objects'
        /\ \E r \in RunIds :
              /\ PersistStep(r)
              /\ Touched = {ExpectedResultPath(runs[r].args.root_path, runs[r].args.crate_id)}

\* run r has ended on its failure path before its result was stored
FailedBeforeStored(r) ==
    /\ runs[r].pc = "done"
    /\ runs[r].failed_at \in {"fetch", "validate", "persist"}

\* a fetch of the result of the crate run r was given, made in this step
GetStepFor(r) ==
    /\ \E b \in MinioConfigs, c \in CrateIds, rp \in RootPaths : get_ro_crate_validation_task(b, c, rp)
    /\ req'.minio_bucket = runs[r].args.minio_config
    /\ ExpectedResultPath(req'.root_path, req'.crate_id)
          = ExpectedResultPath(runs[r].args.root_path, runs[r].args.crate_id)

\* C29: no step but the persist step of a by-reference run changes the
\* object store, and that step touches only the result object of the run's
\* crate and removes nothing; a run that has failed has written nothing, and
\* a fetch made after it for a crate whose earlier result is in the store
\* returns 200 with that earlier result.
C29_StoreFrame ==
    [][/\ StoreFrame
       /\ \A r \in RunIds :
             /\ FailedBeforeStored(r) => WritesOf(r) = {}
             /\ (FailedBeforeStored(r) /\ GetStepFor(r) /\ CrateFound' /\ ResultFound') =>
                   resp' = Returned(200, Body("stored", "", StoredResult'))]_vars

\* the frame of the store and of a failed run, without the fetch
StoreFrameOnly ==
    [][/\ StoreFrame
       /\ \A r \in RunIds : FailedBeforeStored(r) => WritesOf(r) = {}]_vars

\* ------------------------------------- between acceptance and execution
\* the crate of the latest submission was in the bucket when the submission
\* was made and is there no more, and run r, given that crate, has ended
RemovedBeforeFetch(r) ==
    /\ Done(ById)
    /\ CrateFound
    /\ ~check_ro_crate_exists(objects, get_minio_client(req.minio_bucket),
                              req.minio_bucket.bucket, req.crate_id, req.root_path)
    /\ runs[r].pc = "done"
    /\ runs[r].args.minio_config = req.minio_bucket
    /\ runs[r].args.crate_id = req.crate_id
    /\ runs[r].args.root_path = req.root_path

GapFailurePath ==
    \A r \in RunIds :
        RemovedBeforeFetch(r) =>
            /\ runs[r].failed_at = "fetch"
            /\ runs[r].steps = <<"fetch", "except", "finally">>
            /\ WritesOf(r) = {}
            /\ (runs[r].raised # NoResp \/ ~Truthy(runs[r].args.webhook_url)) => runs[r].sent = <<>>
            /\ (runs[r].raised = NoResp /\ Truthy(runs[r].args.webhook_url)) => Len(runs[r].sent) = 1

\* the submission for a crate that is in the bucket has returned 202
GapAccepted == Done(ById) /\ CrateFound /\ resp.status = 202

====
